---- MODULE Spec2Model ----
(***************************************************************************)
(* A model of esupgrade's rewrite engine: transform() of src/index.js and  *)
(* the passes of src/widelyAvailable.js and src/newlyAvailable.js.         *)
(*                                                                         *)
(* Source text is represented by its syntax tree written as a nested value *)
(* (a "text tree"): parsing turns it into an arena of mutable nodes with   *)
(* identity (jscodeshift paths refer to node objects, and a rewrite made   *)
(* below an already replaced node lands in the detached object), printing  *)
(* turns the arena back into a text tree.                                  *)
(*                                                                         *)
(* A node is [type, name, flags, kids, line]:                              *)
(*   name   Identifier.name, StringLiteral/NumericLiteral.value,           *)
(*          BinaryExpression/UpdateExpression/AssignmentExpression         *)
(*          .operator, VariableDeclaration.kind, TemplateElement.value     *)
(*   flags  subset of {"computed","prefix","tail","generator","async"}     *)
(*   kids   child node ids in ast-types field order, 0 for a null field:   *)
(*            Program, BlockStatement     body...                          *)
(*            ExpressionStatement         expression                       *)
(*            ReturnStatement             argument                         *)
(*            VariableDeclaration         declarations...                  *)
(*            VariableDeclarator          id, init                         *)
(*            BinaryExpression            left, right                      *)
(*            AssignmentExpression        left, right                      *)
(*            AssignmentPattern           left, right                      *)
(*            UpdateExpression, AwaitExpression, SpreadElement  argument   *)
(*            CallExpression, NewExpression   callee, arguments...         *)
(*            MemberExpression            object, property                 *)
(*            ObjectExpression            properties...                    *)
(*            ArrayExpression, ArrayPattern   elements...                  *)
(*            FunctionExpression, FunctionDeclaration,                     *)
(*            ArrowFunctionExpression     id, params..., body              *)
(*            ForStatement                init, test, update, body         *)
(*            ForOfStatement, ForInStatement  left, right, body            *)
(*            TemplateLiteral             quasis, expressions (two array   *)
(*                                        holders of type "quasis" and     *)
(*                                        "expressions")                   *)
(*   line   loc.start.line, 0 when the node has no loc (built by a pass)   *)
(***************************************************************************)
EXTENDS Integers, Sequences, FiniteSets, TLC

VARIABLES
  code,        \* transform's argument `code`: the source, as a text tree
  lead,        \* number of blank lines before the first statement
  baseline,    \* transform's argument `baseline`
  pc,          \* position in transform: "idle", "call", "loop", "done", "threw"
  next,        \* index in the pass list of the pass the loop runs next
  ast,         \* the arena behind `root`, <<>> before parsing
  modified,    \* transform's local `modified`
  allChanges,  \* transform's local `allChanges`
  ran,         \* history: result [name, modified, changes] of every pass run so far
  result,      \* the returned TransformResult, NoResult before the return
  argv,        \* the command line: [files, check, write, baseline]
  disk,        \* the file system: the text of every file, by path
  cli,         \* position in the command: "idle" (no command), "action",
               \* "file", "transform", "summary", "exit"
  files,       \* processFiles' local `files`
  file,        \* index in files of the file the loop of processFiles is at
  modifiedCount, \* processFiles' local `modifiedCount`
  stdout,      \* lines written with console.log
  stderr,      \* lines written with console.error
  written,     \* history: the paths given to fs.writeFileSync, in order
  exitCode     \* the exit status, -1 while the process runs

cliVars == <<argv, disk, cli, files, file, modifiedCount, stdout, stderr, written, exitCode>>

vars == <<code, lead, baseline, pc, next, ast, modified, allChanges, ran, result,
          argv, disk, cli, files, file, modifiedCount, stdout, stderr, written, exitCode>>

----------------------------------------------------------------------------
(* Text trees                                                              *)

T(type, name, flags, kids) ==
  [type |-> type, name |-> name, flags |-> flags, kids |-> kids]

Null == T("null", "", {}, <<>>)

Id(n) == T("Identifier", n, {}, <<>>)
Str(v) == T("StringLiteral", v, {}, <<>>)
Num(v) == T("NumericLiteral", v, {}, <<>>)
This == T("ThisExpression", "", {}, <<>>)
SuperT == T("Super", "", {}, <<>>)
Bin(op, l, r) == T("BinaryExpression", op, {}, <<l, r>>)
Assign(l, r) == T("AssignmentExpression", "=", {}, <<l, r>>)
Default(l, r) == T("AssignmentPattern", "", {}, <<l, r>>)
Update(op, pre, a) ==
  T("UpdateExpression", op, IF pre THEN {"prefix"} ELSE {}, <<a>>)
Call(callee, args) == T("CallExpression", "", {}, <<callee>> \o args)
NewT(callee, args) == T("NewExpression", "", {}, <<callee>> \o args)
Member(o, p) == T("MemberExpression", "", {}, <<o, p>>)
Index(o, p) == T("MemberExpression", "", {"computed"}, <<o, p>>)
Method(o, m, args) == Call(Member(o, Id(m)), args)
Spread(a) == T("SpreadElement", "", {}, <<a>>)
Await(a) == T("AwaitExpression", "", {}, <<a>>)
Obj(props) == T("ObjectExpression", "", {}, props)
Arr(elems) == T("ArrayExpression", "", {}, elems)
ArrPat(elems) == T("ArrayPattern", "", {}, elems)
Block(stmts) == T("BlockStatement", "", {}, stmts)
ExprStmt(e) == T("ExpressionStatement", "", {}, <<e>>)
Return(e) == T("ReturnStatement", "", {}, <<e>>)
Declarator(id, init) == T("VariableDeclarator", "", {}, <<id, init>>)
VarDecl(kind, decls) == T("VariableDeclaration", kind, {}, decls)
Decl(kind, n, init) == VarDecl(kind, <<Declarator(Id(n), init)>>)
Func(flags, id, params, body) ==
  T("FunctionExpression", "", flags, <<id>> \o params \o <<body>>)
Arrow(params, body) ==
  T("ArrowFunctionExpression", "", {}, <<Null>> \o params \o <<body>>)
For(init, test, update, body) ==
  T("ForStatement", "", {}, <<init, test, update, body>>)
ForOf(left, right, body) == T("ForOfStatement", "", {}, <<left, right, body>>)
Program(stmts) == T("Program", "", {}, stmts)

----------------------------------------------------------------------------
(* Node kinds of ast-types that the passes test with j.X.check              *)

StatementTypes ==
  {"ExpressionStatement", "VariableDeclaration", "ReturnStatement",
   "BlockStatement", "ForStatement", "ForOfStatement", "ForInStatement",
   "FunctionDeclaration"}

FunctionTypes ==
  {"FunctionExpression", "FunctionDeclaration", "ArrowFunctionExpression"}

LiteralTypes == {"StringLiteral", "NumericLiteral"}

ExpressionTypes ==
  {"Identifier", "StringLiteral", "NumericLiteral", "ThisExpression",
   "Super", "BinaryExpression", "AssignmentExpression", "UpdateExpression",
   "CallExpression", "NewExpression", "MemberExpression", "ObjectExpression",
   "ArrayExpression", "FunctionExpression", "ArrowFunctionExpression",
   "AwaitExpression", "TemplateLiteral"}

PatternTypes ==
  {"Identifier", "ArrayPattern", "AssignmentPattern", "MemberExpression"}

----------------------------------------------------------------------------
(* jscodeshift.withParser("tsx") and j(code): the text becomes an arena.   *)
(* Node ids are given in source (pre-order) order.  Every statement starts *)
(* a new line and nothing else breaks a line, so loc.start.line of a node  *)
(* is the line of the innermost statement that starts at or before it.     *)

RECURSIVE Sum(_)

\* the sum of a sequence of numbers
Sum(s) == IF s = <<>> THEN 0 ELSE Head(s) + Sum(Tail(s))

RECURSIVE Flat(_)

\* the concatenation of a sequence of sequences
Flat(ss) == IF ss = <<>> THEN <<>> ELSE Head(ss) \o Flat(Tail(ss))

RECURSIVE Size(_)

\* the number of nodes of a text tree
Size(t) ==
  IF t.type = "null" THEN 0
  ELSE 1 + Sum([i \in 1..Len(t.kids) |-> Size(t.kids[i])])

\* the declaration in the head of a loop is written on the line of the loop
InHead(t, i) ==
  t.type \in {"ForStatement", "ForOfStatement", "ForInStatement"} /\ i = 1

\* the text of t starts on a line of its own
StartsLine(t, head) == ~head /\ t.type \in StatementTypes \ {"BlockStatement"}

RECURSIVE Breaks(_, _)

\* the number of lines a text tree starts
Breaks(t, head) ==
  IF t.type = "null" THEN 0
  ELSE (IF StartsLine(t, head) THEN 1 ELSE 0)
       + Sum([i \in 1..Len(t.kids) |-> Breaks(t.kids[i], InHead(t, i))])

RECURSIVE ParseNode(_, _, _, _)

\* the nodes of the tree t, its root getting the given id; line is the
\* line the text before t ends on
ParseNode(t, id, line, head) ==
  IF t.type = "null" THEN <<>>
  ELSE
    LET ln == IF StartsLine(t, head) THEN line + 1 ELSE line
        n == Len(t.kids)
        kidId(i) == id + 1 + Sum([j \in 1..(i - 1) |-> Size(t.kids[j])])
        kidLine(i) ==
          ln + Sum([j \in 1..(i - 1) |-> Breaks(t.kids[j], InHead(t, j))])
        self == [type |-> t.type, name |-> t.name, flags |-> t.flags,
                 kids |-> [i \in 1..n |->
                             IF t.kids[i].type = "null" THEN 0 ELSE kidId(i)],
                 line |-> ln]
    IN <<self>>
       \o Flat([i \in 1..n |->
                  ParseNode(t.kids[i], kidId(i), kidLine(i), InHead(t, i))])

\* the Program node is node 1
Root == 1

\* text that is no program at all (an unclosed bracket, a stray token)
Invalid == T("Invalid", "", {}, <<>>)

\* the bindings a statement list declares: <<keyword, name>> of every
\* declarator of its declarations
Declared(stmts) ==
  Flat([i \in 1..Len(stmts) |->
          IF stmts[i].type = "VariableDeclaration"
            THEN [k \in 1..Len(stmts[i].kids) |->
                    <<stmts[i].name, stmts[i].kids[k].kids[1]>>]
            ELSE <<>>])

\* the parser rejects a scope that declares a name twice unless both
\* declarations are `var`
Redeclared(stmts) ==
  \A ds \in {Declared(stmts)} :
    \E i, k \in 1..Len(ds) :
      /\ i < k
      /\ ds[i][2].type = "Identifier"
      /\ ds[i][2] = ds[k][2]
      /\ ds[i][1] # "var" \/ ds[k][1] # "var"

RECURSIVE SyntaxError(_)

\* j(code) raises: the parser does not recover from an error
SyntaxError(t) ==
  \/ t.type = "Invalid"
  \/ t.type \in {"Program", "BlockStatement"} /\ Redeclared(t.kids)
  \/ \E i \in 1..Len(t.kids) : SyntaxError(t.kids[i])

Parse(text, blank) == ParseNode(text, Root, blank, FALSE)

(* root.toSource(): the arena printed back as a text tree                  *)

RECURSIVE toSource(_, _)

toSource(nodes, id) ==
  IF id = 0 THEN Null
  ELSE T(nodes[id].type, nodes[id].name, nodes[id].flags,
         [i \in 1..Len(nodes[id].kids) |-> toSource(nodes, nodes[id].kids[i])])

----------------------------------------------------------------------------
(* Collection.find: every node of the tree, parents first, fields in       *)
(* ast-types order, as paths [node, parent, idx]; the collection is built  *)
(* in full before filter and forEach run.                                  *)

RECURSIVE Walk(_, _, _, _, _)

\* up = <<parent's parent, index of the parent in it>>
Walk(nodes, id, parent, idx, up) ==
  IF id = 0 THEN <<>>
  ELSE <<[node |-> id, parent |-> parent, idx |-> idx, up |-> up]>>
       \o Flat([i \in 1..Len(nodes[id].kids) |->
                  Walk(nodes, nodes[id].kids[i], id, i, <<parent, idx>>)])

find(nodes, types) ==
  SelectSeq(Walk(nodes, Root, 0, 0, <<0, 0>>), LAMBDA p : nodes[p.node].type \in types)

\* path.parent: the path of the parent node
ParentPath(p) == [node |-> p.parent, parent |-> p.up[1], idx |-> p.up[2]]

\* ids of the nodes of the subtree below (and including) id
Subtree(nodes, id) ==
  LET w == Walk(nodes, id, 0, 0, <<0, 0>>) IN {w[i].node : i \in 1..Len(w)}

(* Builders j.xxx(...): a new node without loc is added to the arena       *)

\* a builder whose nodes claim the first line of the text
BuildOnLineOne(nodes, type, name, flags, kids) ==
  [nodes |-> Append(nodes, [type |-> type, name |-> name, flags |-> flags,
                            kids |-> kids, line |-> 1]),
   id |-> Len(nodes) + 1]

Build(nodes, type, name, flags, kids) ==
  [nodes |-> Append(nodes, [type |-> type, name |-> name, flags |-> flags,
                            kids |-> kids, line |-> 0]),
   id |-> Len(nodes) + 1]

\* Path.replace with one replacement: the slot of the parent object that
\* held the node now holds the replacement
replaceWith(nodes, p, new) == [nodes EXCEPT ![p.parent].kids[p.idx] = new]

\* field accessors
Kid(nodes, id, i) == IF id = 0 \/ i > Len(nodes[id].kids) THEN 0 ELSE nodes[id].kids[i]
TypeOf(nodes, id) == IF id = 0 THEN "null" ELSE nodes[id].type
NameOf(nodes, id) == IF id = 0 THEN "" ELSE nodes[id].name
Arguments(nodes, id) == SubSeq(nodes[id].kids, 2, Len(nodes[id].kids))
Params(nodes, id) == SubSeq(nodes[id].kids, 2, Len(nodes[id].kids) - 1)
Body(nodes, id) == nodes[id].kids[Len(nodes[id].kids)]

\* what a pass returns, plus whether it raised instead of returning
PassResult(nodes, m, ch, threw) ==
  [nodes |-> nodes, modified |-> m, changes |-> ch, threw |-> threw]

Change(type, line) == [type |-> type, line |-> line]

----------------------------------------------------------------------------
(* varToConst                                                              *)

\* a variant that records a change whether or not the node has a position
varToConstEachAlwaysRecords(acc, p) ==
  PassResult([acc.nodes EXCEPT ![p.node].name = "const"],
             TRUE,
             Append(acc.changes, Change("varToConst", acc.nodes[p.node].line)),
             FALSE)

varToConstEach(acc, p) ==
  LET node == acc.nodes[p.node]
  IN PassResult([acc.nodes EXCEPT ![p.node].name = "const"],
                TRUE,
                IF node.line # 0
                  THEN Append(acc.changes, Change("varToConst", node.line))
                  ELSE acc.changes,
                FALSE)

varToConstFind(nodes) ==
  SelectSeq(find(nodes, {"VariableDeclaration"}),
            LAMBDA p : nodes[p.node].name = "var")

----------------------------------------------------------------------------
(* concatToTemplateLiteral                                                 *)

IsPlus(nodes, id) == TypeOf(nodes, id) = "BinaryExpression" /\ nodes[id].name = "+"

\* typeof node.value === "string" holds of the StringLiteral nodes only
isStringLiteral(nodes, id) == TypeOf(nodes, id) = "StringLiteral"

RECURSIVE containsStringLiteral(_, _)

containsStringLiteral(nodes, id) ==
  IF isStringLiteral(nodes, id) THEN TRUE
  ELSE IF IsPlus(nodes, id)
    THEN \/ containsStringLiteral(nodes, Kid(nodes, id, 1))
         \/ containsStringLiteral(nodes, Kid(nodes, id, 2))
    ELSE FALSE

\* the filter's own copy of the same test
hasStringLiteral(nodes, id) == containsStringLiteral(nodes, id)

\* st = [parts, expressions]
addStringPart(st, value) ==
  IF Len(st.parts) = 0 \/ Len(st.expressions) >= Len(st.parts)
    THEN [st EXCEPT !.parts = Append(@, value)]
    ELSE [st EXCEPT !.parts[Len(st.parts)] = @ \o value]

addExpression(st, expr) ==
  LET s1 == IF Len(st.parts) = 0 THEN [st EXCEPT !.parts = <<"">>] ELSE st
  IN [s1 EXCEPT !.expressions = Append(@, expr)]

RECURSIVE flattenEveryOperand(_, _, _, _)

\* a flattening that splits every `+` into its operands
flattenEveryOperand(nodes, node, stringContext, st) ==
  IF ~IsPlus(nodes, node) THEN st
  ELSE
    LET left == Kid(nodes, node, 1)
        right == Kid(nodes, node, 2)
        afterLeft ==
          IF IsPlus(nodes, left) THEN flattenEveryOperand(nodes, left, stringContext, st)
          ELSE IF isStringLiteral(nodes, left)
            THEN addStringPart(st, nodes[left].name)
            ELSE addExpression(st, left)
    IN IF IsPlus(nodes, right)
         THEN flattenEveryOperand(nodes, right, stringContext, afterLeft)
         ELSE IF isStringLiteral(nodes, right)
           THEN addStringPart(afterLeft, nodes[right].name)
           ELSE addExpression(afterLeft, right)

RECURSIVE flatten(_, _, _, _)

flatten(nodes, node, stringContext, st) ==
  IF ~IsPlus(nodes, node) THEN st
  ELSE
    LET hasString == containsStringLiteral(nodes, node)
        left == Kid(nodes, node, 1)
        right == Kid(nodes, node, 2)
        leftHasString == containsStringLiteral(nodes, left)
        afterLeft ==
          IF IsPlus(nodes, left) THEN flatten(nodes, left, stringContext, st)
          ELSE IF isStringLiteral(nodes, left)
            THEN addStringPart(st, nodes[left].name)
            ELSE addExpression(st, left)
        rightInStringContext == stringContext \/ leftHasString
    IN IF ~hasString /\ ~stringContext THEN addExpression(st, node)
       ELSE IF IsPlus(nodes, right)
         THEN IF ~containsStringLiteral(nodes, right) /\ rightInStringContext
                THEN addExpression(afterLeft, right)
                ELSE flatten(nodes, right, rightInStringContext, afterLeft)
         ELSE IF isStringLiteral(nodes, right)
           THEN addStringPart(afterLeft, nodes[right].name)
           ELSE addExpression(afterLeft, right)

\* while (parts.length <= expressions.length) parts.push("")
PadParts(parts, expressions) ==
  IF Len(parts) > Len(expressions) THEN parts
  ELSE parts \o [i \in 1..(Len(expressions) + 1 - Len(parts)) |-> ""]

\* j.templateElement for every part, then j.templateLiteral(quasis, expressions)
templateLiteral(nodes, parts, expressions) ==
  LET n == Len(nodes)
      k == Len(parts)
      quasis == [i \in 1..k |->
                   [type |-> "TemplateElement", name |-> parts[i],
                    flags |-> IF i = k THEN {"tail"} ELSE {},
                    kids |-> <<>>, line |-> 0]]
      holders == << [type |-> "quasis", name |-> "", flags |-> {},
                     kids |-> [i \in 1..k |-> n + i], line |-> 0],
                    [type |-> "expressions", name |-> "", flags |-> {},
                     kids |-> expressions, line |-> 0],
                    [type |-> "TemplateLiteral", name |-> "", flags |-> {},
                     kids |-> <<n + k + 1, n + k + 2>>, line |-> 0] >>
  IN [nodes |-> nodes \o quasis \o holders, id |-> n + k + 3]

concatToTemplateLiteralFilter(nodes, p) == hasStringLiteral(nodes, p.node)

concatToTemplateLiteralEach(acc, p) ==
  LET st == flatten(acc.nodes, p.node, FALSE, [parts |-> <<>>, expressions |-> <<>>])
      b == templateLiteral(acc.nodes, PadParts(st.parts, st.expressions), st.expressions)
  IN PassResult(replaceWith(b.nodes, p, b.id), TRUE, acc.changes, FALSE)

concatToTemplateLiteralFind(nodes) ==
  SelectSeq(SelectSeq(find(nodes, {"BinaryExpression"}),
                      LAMBDA p : nodes[p.node].name = "+"),
            LAMBDA p : concatToTemplateLiteralFilter(nodes, p))

----------------------------------------------------------------------------
(* objectAssignToSpread                                                    *)

\* a node whose `name` property is n
Named(nodes, id, n) == TypeOf(nodes, id) = "Identifier" /\ nodes[id].name = n

\* find's pattern {callee: {type: "MemberExpression", object: {name: o},
\* property: {name: m}}}
CalleeMatches(nodes, id, o, m) ==
  LET callee == Kid(nodes, id, 1)
  IN /\ TypeOf(nodes, callee) = "MemberExpression"
     /\ Named(nodes, Kid(nodes, callee, 1), o)
     /\ Named(nodes, Kid(nodes, callee, 2), m)

objectAssignToSpreadFilter(nodes, p) ==
  LET firstArg == Kid(nodes, p.node, 2)
  IN /\ TypeOf(nodes, firstArg) = "ObjectExpression"
     /\ Len(nodes[firstArg].kids) = 0

objectAssignToSpreadEach(acc, p) ==
  LET nodes == acc.nodes
      n == Len(nodes)
      rest == SubSeq(nodes[p.node].kids, 3, Len(nodes[p.node].kids))
      \* j.spreadElement(arg) asserts that arg is an expression
      bad == \E i \in 1..Len(rest) : TypeOf(nodes, rest[i]) \notin ExpressionTypes
      spreadProperties ==
        [i \in 1..Len(rest) |->
           [type |-> "SpreadElement", name |-> "", flags |-> {},
            kids |-> <<rest[i]>>, line |-> 0]]
      b == Build(nodes \o spreadProperties, "ObjectExpression", "", {},
                 [i \in 1..Len(rest) |-> n + i])
  IN IF bad THEN [acc EXCEPT !.threw = TRUE]
     ELSE PassResult(replaceWith(b.nodes, p, b.id), TRUE, acc.changes, FALSE)

objectAssignToSpreadFind(nodes) ==
  SelectSeq(SelectSeq(find(nodes, {"CallExpression"}),
                      LAMBDA p : CalleeMatches(nodes, p.node, "Object", "assign")),
            LAMBDA p : objectAssignToSpreadFilter(nodes, p))

----------------------------------------------------------------------------
(* arrayFromForEachToForOf                                                 *)

\* node.callee is a member access whose property is the identifier m
IsMethodCall(nodes, id, m) ==
  LET callee == Kid(nodes, id, 1)
  IN /\ TypeOf(nodes, callee) = "MemberExpression"
     /\ Named(nodes, Kid(nodes, callee, 2), m)

\* a call whose callee is `Array.from` with both names identifiers
IsArrayFrom(nodes, id) ==
  LET callee == Kid(nodes, id, 1)
  IN /\ TypeOf(nodes, id) = "CallExpression"
     /\ TypeOf(nodes, callee) = "MemberExpression"
     /\ Named(nodes, Kid(nodes, callee, 1), "Array")
     /\ Named(nodes, Kid(nodes, callee, 2), "from")

arrayFromForEachToForOfFilter(nodes, p) ==
  /\ IsMethodCall(nodes, p.node, "forEach")
  /\ IsArrayFrom(nodes, Kid(nodes, Kid(nodes, p.node, 1), 1))

\* j.forOfStatement(j.variableDeclaration(kind, [j.variableDeclarator(item)]),
\*                  right, body); the builders assert the kinds of their fields
forOfStatement(nodes, kind, item, right, body) ==
  LET d == Build(nodes, "VariableDeclarator", "", {}, <<item, 0>>)
      v == Build(d.nodes, "VariableDeclaration", kind, {}, <<d.id>>)
      f == Build(v.nodes, "ForOfStatement", "", {}, <<v.id, right, body>>)
  IN [nodes |-> f.nodes, id |-> f.id,
      ok |-> /\ TypeOf(nodes, item) \in PatternTypes
             /\ TypeOf(nodes, right) \in ExpressionTypes
             /\ TypeOf(nodes, body) \in StatementTypes]

\* j.blockStatement([j.expressionStatement(body)])
WrapInBlock(nodes, body) ==
  LET e == Build(nodes, "ExpressionStatement", "", {}, <<body>>)
      b == Build(e.nodes, "BlockStatement", "", {}, <<e.id>>)
  IN [nodes |-> b.nodes, id |-> b.id, ok |-> TypeOf(nodes, body) \in ExpressionTypes]

arrayFromForEachToForOfEach(acc, p) ==
  LET nodes == acc.nodes
      node == p.node
      iterable == Kid(nodes, Kid(nodes, Kid(nodes, node, 1), 1), 2)
      callback == Kid(nodes, node, 2)
      params == Params(nodes, callback)
      canTransform ==
        \/ Len(params) = 1
        \/ Len(params) >= 2 /\ TypeOf(nodes, params[1]) = "ArrayPattern"
      body == Body(nodes, callback)
      blk == IF TypeOf(nodes, body) = "BlockStatement"
               THEN [nodes |-> nodes, id |-> body, ok |-> TRUE]
               ELSE WrapInBlock(nodes, body)
      loop == forOfStatement(blk.nodes, "const", params[1], iterable, blk.id)
      statement == ParentPath(p)
  IN IF ~(callback # 0 /\ TypeOf(nodes, callback) \in
            {"ArrowFunctionExpression", "FunctionExpression"})
       THEN acc
     ELSE IF ~canTransform THEN acc
     ELSE IF ~(blk.ok /\ loop.ok) THEN [acc EXCEPT !.threw = TRUE]
     ELSE IF TypeOf(nodes, statement.node) # "ExpressionStatement" THEN acc
     ELSE PassResult(replaceWith(loop.nodes, statement, loop.id), TRUE,
                     IF nodes[node].line # 0
                       THEN Append(acc.changes,
                                   Change("arrayFromForEachToForOf", nodes[node].line))
                       ELSE acc.changes,
                     FALSE)

arrayFromForEachToForOfFind(nodes) ==
  SelectSeq(find(nodes, {"CallExpression"}),
            LAMBDA p : arrayFromForEachToForOfFilter(nodes, p))

----------------------------------------------------------------------------
(* forOfKeysToForIn                                                        *)

forOfKeysToForInFilter(nodes, p) ==
  LET right == Kid(nodes, p.node, 2)
      callee == Kid(nodes, right, 1)
  IN /\ TypeOf(nodes, right) = "CallExpression"
     /\ TypeOf(nodes, callee) = "MemberExpression"
     /\ Named(nodes, Kid(nodes, callee, 1), "Object")
     /\ Named(nodes, Kid(nodes, callee, 2), "keys")
     /\ Len(Arguments(nodes, right)) = 1

forOfKeysToForInEach(acc, p) ==
  LET nodes == acc.nodes
      node == p.node
      left == Kid(nodes, node, 1)
      objectArg == Kid(nodes, Kid(nodes, node, 2), 2)
      body == Kid(nodes, node, 3)
      b == Build(nodes, "ForInStatement", "", {}, <<left, objectArg, body>>)
  IN IF TypeOf(nodes, objectArg) \notin ExpressionTypes
       THEN [acc EXCEPT !.threw = TRUE]
     ELSE PassResult(replaceWith(b.nodes, p, b.id), TRUE,
                     IF nodes[node].line # 0
                       THEN Append(acc.changes,
                                   Change("forOfKeysToForIn", nodes[node].line))
                       ELSE acc.changes,
                     FALSE)

forOfKeysToForInFind(nodes) ==
  SelectSeq(find(nodes, {"ForOfStatement"}),
            LAMBDA p : forOfKeysToForInFilter(nodes, p))

----------------------------------------------------------------------------
(* arrayFromToSpread                                                       *)

arrayFromToSpreadFilter(nodes, p) ==
  LET parent == p.parent
  IN /\ IsArrayFrom(nodes, p.node)
     /\ Len(Arguments(nodes, p.node)) = 1
     /\ ~(/\ TypeOf(nodes, parent) = "MemberExpression"
          /\ Named(nodes, Kid(nodes, parent, 2), "forEach"))

arrayFromToSpreadEach(acc, p) ==
  LET nodes == acc.nodes
      node == p.node
      iterable == Kid(nodes, node, 2)
      sp == Build(nodes, "SpreadElement", "", {}, <<iterable>>)
      b == Build(sp.nodes, "ArrayExpression", "", {}, <<sp.id>>)
  IN IF TypeOf(nodes, iterable) \notin ExpressionTypes
       THEN [acc EXCEPT !.threw = TRUE]
     ELSE PassResult(replaceWith(b.nodes, p, b.id), TRUE,
                     IF nodes[node].line # 0
                       THEN Append(acc.changes,
                                   Change("arrayFromToSpread", nodes[node].line))
                       ELSE acc.changes,
                     FALSE)

arrayFromToSpreadFind(nodes) ==
  SelectSeq(find(nodes, {"CallExpression"}),
            LAMBDA p : arrayFromToSpreadFilter(nodes, p))

----------------------------------------------------------------------------
(* mathPowToExponentiation                                                 *)

mathPowToExponentiationFilter(nodes, p) == Len(Arguments(nodes, p.node)) = 2

\* a variant that writes the exponent to the left of `**` and the base to
\* its right
mathPowToExponentiationEachSwapped(acc, p) ==
  LET nodes == acc.nodes
      b == Build(nodes, "BinaryExpression", "**", {},
                 <<Kid(nodes, p.node, 3), Kid(nodes, p.node, 2)>>)
  IN PassResult(replaceWith(b.nodes, p, b.id), TRUE,
                IF nodes[p.node].line # 0
                  THEN Append(acc.changes,
                              Change("mathPowToExponentiation", nodes[p.node].line))
                  ELSE acc.changes,
                FALSE)

mathPowToExponentiationEach(acc, p) ==
  LET nodes == acc.nodes
      node == p.node
      base == Kid(nodes, node, 2)
      exponent == Kid(nodes, node, 3)
      b == Build(nodes, "BinaryExpression", "**", {}, <<base, exponent>>)
  IN IF \/ TypeOf(nodes, base) \notin ExpressionTypes
        \/ TypeOf(nodes, exponent) \notin ExpressionTypes
       THEN [acc EXCEPT !.threw = TRUE]
     ELSE PassResult(replaceWith(b.nodes, p, b.id), TRUE,
                     IF nodes[node].line # 0
                       THEN Append(acc.changes,
                                   Change("mathPowToExponentiation", nodes[node].line))
                       ELSE acc.changes,
                     FALSE)

mathPowToExponentiationFind(nodes) ==
  SelectSeq(SelectSeq(find(nodes, {"CallExpression"}),
                      LAMBDA p : CalleeMatches(nodes, p.node, "Math", "pow")),
            LAMBDA p : mathPowToExponentiationFilter(nodes, p))

----------------------------------------------------------------------------
(* forLoopToForOf                                                          *)

\* checkNode: some identifier named indexVar occurs in one of the statements
indexVarUsed(nodes, stmts, indexVar) ==
  \E i \in 1..Len(stmts) :
    \E n \in Subtree(nodes, stmts[i]) : Named(nodes, n, indexVar)

forLoopToForOfFilter(nodes, p) ==
  LET node == p.node
      init == Kid(nodes, node, 1)
      test == Kid(nodes, node, 2)
      update == Kid(nodes, node, 3)
      body == Kid(nodes, node, 4)
      initDeclarator == Kid(nodes, init, 1)
      indexVar == NameOf(nodes, Kid(nodes, initDeclarator, 1))
      arrayVar == NameOf(nodes, Kid(nodes, Kid(nodes, test, 2), 1))
      firstStmt == Kid(nodes, body, 1)
      varDeclarator == Kid(nodes, firstStmt, 1)
      access == Kid(nodes, varDeclarator, 2)
  IN /\ TypeOf(nodes, init) = "VariableDeclaration"
     /\ Len(nodes[init].kids) = 1
     /\ TypeOf(nodes, Kid(nodes, initDeclarator, 1)) = "Identifier"
     /\ TypeOf(nodes, Kid(nodes, initDeclarator, 2)) \in LiteralTypes
     /\ NameOf(nodes, Kid(nodes, initDeclarator, 2)) = "0"
     /\ TypeOf(nodes, Kid(nodes, initDeclarator, 2)) = "NumericLiteral"
     /\ TypeOf(nodes, test) = "BinaryExpression"
     /\ nodes[test].name = "<"
     /\ Named(nodes, Kid(nodes, test, 1), indexVar)
     /\ TypeOf(nodes, Kid(nodes, test, 2)) = "MemberExpression"
     /\ Named(nodes, Kid(nodes, Kid(nodes, test, 2), 2), "length")
     /\ TypeOf(nodes, Kid(nodes, Kid(nodes, test, 2), 1)) = "Identifier"
     /\ TypeOf(nodes, update) = "UpdateExpression"
     /\ Named(nodes, Kid(nodes, update, 1), indexVar)
     /\ nodes[update].name = "++"
     /\ TypeOf(nodes, body) = "BlockStatement"
     /\ Len(nodes[body].kids) # 0
     /\ TypeOf(nodes, firstStmt) = "VariableDeclaration"
     /\ Len(nodes[firstStmt].kids) = 1
     /\ TypeOf(nodes, Kid(nodes, varDeclarator, 1)) = "Identifier"
     /\ TypeOf(nodes, access) = "MemberExpression"
     /\ Named(nodes, Kid(nodes, access, 1), arrayVar)
     /\ Named(nodes, Kid(nodes, access, 2), indexVar)
     /\ "computed" \in nodes[access].flags
     /\ ~indexVarUsed(nodes, SubSeq(nodes[body].kids, 2, Len(nodes[body].kids)),
                      indexVar)

forLoopToForOfEach(acc, p) ==
  LET nodes == acc.nodes
      node == p.node
      body == Kid(nodes, node, 4)
      firstStmt == Kid(nodes, body, 1)
      arrayVar == NameOf(nodes, Kid(nodes, Kid(nodes, Kid(nodes, node, 2), 2), 1))
      itemVar == NameOf(nodes, Kid(nodes, Kid(nodes, firstStmt, 1), 1))
      itemKind == nodes[firstStmt].name
      newBody == Build(nodes, "BlockStatement", "", {},
                       SubSeq(nodes[body].kids, 2, Len(nodes[body].kids)))
      item == Build(newBody.nodes, "Identifier", itemVar, {}, <<>>)
      arr == Build(item.nodes, "Identifier", arrayVar, {}, <<>>)
      loop == forOfStatement(arr.nodes, itemKind, item.id, arr.id, newBody.id)
  IN PassResult(replaceWith(loop.nodes, p, loop.id), TRUE,
                IF nodes[node].line # 0
                  THEN Append(acc.changes, Change("forLoopToForOf", nodes[node].line))
                  ELSE acc.changes,
                FALSE)

forLoopToForOfFind(nodes) ==
  SelectSeq(find(nodes, {"ForStatement"}), LAMBDA p : forLoopToForOfFilter(nodes, p))

----------------------------------------------------------------------------
(* iterableForEachToForOf                                                  *)

knownIterableMethods ==
  [document |-> {"querySelectorAll", "getElementsByTagName",
                 "getElementsByClassName", "getElementsByName"}]

knownIterableProperties == [window |-> {"frames"}]

\* names every object literal inherits from Object.prototype: looking one of
\* them up in a table yields a function (or the prototype), not undefined
ObjectPrototypeKeys ==
  {"constructor", "toString", "valueOf", "hasOwnProperty", "isPrototypeOf",
   "propertyIsEnumerable", "toLocaleString", "__proto__"}

RECURSIVE isFromDocument(_, _)

isFromDocument(nodes, id) ==
  IF TypeOf(nodes, id) = "Identifier" THEN nodes[id].name = "document"
  ELSE IF TypeOf(nodes, id) = "MemberExpression"
    THEN isFromDocument(nodes, Kid(nodes, id, 1))
  ELSE IF TypeOf(nodes, id) = "CallExpression"
    THEN /\ TypeOf(nodes, Kid(nodes, id, 1)) = "MemberExpression"
         /\ isFromDocument(nodes, Kid(nodes, Kid(nodes, id, 1), 1))
  ELSE FALSE

\* the receiver test of the filter: "ok", "no", or "throw" when the lookup
\* knownIterableProperties[objectName] finds an inherited member and calls
\* its missing includes
iterableReceiver(nodes, object) ==
  IF TypeOf(nodes, object) = "MemberExpression"
  THEN
    LET o == Kid(nodes, object, 1)
        q == Kid(nodes, object, 2)
        objectName == IF TypeOf(nodes, o) = "Identifier" THEN nodes[o].name ELSE ""
        propertyName == IF TypeOf(nodes, q) = "Identifier" THEN nodes[q].name ELSE ""
    IN IF objectName = "" \/ propertyName = "" THEN "no"
       ELSE IF objectName \in DOMAIN knownIterableProperties
         THEN IF propertyName \in knownIterableProperties[objectName]
                THEN "ok" ELSE "no"
       ELSE IF objectName \in ObjectPrototypeKeys THEN "throw"
       ELSE "no"
  ELSE IF TypeOf(nodes, object) = "CallExpression"
  THEN
    LET callee == Kid(nodes, object, 1)
        m == Kid(nodes, callee, 2)
        methodName == IF TypeOf(nodes, m) = "Identifier" THEN nodes[m].name ELSE ""
        callerObject == Kid(nodes, callee, 1)
    IN IF TypeOf(nodes, callee) # "MemberExpression" THEN "no"
       ELSE IF methodName = "" THEN "no"
       ELSE IF TypeOf(nodes, callerObject) = "Identifier"
         THEN IF /\ nodes[callerObject].name = "document"
                 /\ methodName \in knownIterableMethods.document
                THEN "ok" ELSE "no"
       ELSE IF TypeOf(nodes, callerObject) \in {"MemberExpression", "CallExpression"}
         THEN IF /\ isFromDocument(nodes, callerObject)
                 /\ methodName \in knownIterableMethods.document
                THEN "ok" ELSE "no"
       ELSE "no"
  ELSE "no"

iterableForEachToForOfFilter(nodes, p) ==
  LET node == p.node
      callback == Kid(nodes, node, 2)
  IN /\ IsMethodCall(nodes, node, "forEach")
     /\ iterableReceiver(nodes, Kid(nodes, Kid(nodes, node, 1), 1)) = "ok"
     /\ Len(Arguments(nodes, node)) # 0
     /\ TypeOf(nodes, callback) \in {"ArrowFunctionExpression", "FunctionExpression"}
     /\ TypeOf(nodes, Body(nodes, callback)) = "BlockStatement"
     /\ Len(Params(nodes, callback)) = 1

iterableForEachToForOfThrows(nodes, p) ==
  /\ IsMethodCall(nodes, p.node, "forEach")
  /\ iterableReceiver(nodes, Kid(nodes, Kid(nodes, p.node, 1), 1)) = "throw"

iterableForEachToForOfEach(acc, p) ==
  LET nodes == acc.nodes
      node == p.node
      iterable == Kid(nodes, Kid(nodes, node, 1), 1)
      callback == Kid(nodes, node, 2)
      loop == forOfStatement(nodes, "const", Params(nodes, callback)[1], iterable,
                             Body(nodes, callback))
      statement == ParentPath(p)
  IN IF ~loop.ok THEN [acc EXCEPT !.threw = TRUE]
     ELSE IF TypeOf(nodes, statement.node) # "ExpressionStatement" THEN acc
     ELSE PassResult(replaceWith(loop.nodes, statement, loop.id), TRUE,
                     IF nodes[node].line # 0
                       THEN Append(acc.changes,
                                   Change("iterableForEachToForOf", nodes[node].line))
                       ELSE acc.changes,
                     FALSE)

iterableForEachToForOfFind(nodes) ==
  SelectSeq(find(nodes, {"CallExpression"}),
            LAMBDA p : iterableForEachToForOfFilter(nodes, p))

----------------------------------------------------------------------------
(* anonymousFunctionToArrow                                                *)

RECURSIVE checkNodeThis(_, _)

\* usesThis.checkNode
checkNodeThis(nodes, id) ==
  IF id = 0 THEN FALSE
  ELSE IF nodes[id].type = "ThisExpression" THEN TRUE
  ELSE IF nodes[id].type \in
            {"FunctionDeclaration", "FunctionExpression", "ArrowFunctionExpression"}
    THEN FALSE
  ELSE \E i \in 1..Len(nodes[id].kids) : checkNodeThis(nodes, nodes[id].kids[i])

usesThis(nodes, body) == checkNodeThis(nodes, body)

RECURSIVE visitArguments(_, _)

\* usesArguments.visit
visitArguments(nodes, id) ==
  IF id = 0 THEN FALSE
  ELSE IF nodes[id].type \in {"FunctionExpression", "FunctionDeclaration"} THEN FALSE
  ELSE IF nodes[id].type = "Identifier" /\ nodes[id].name = "arguments" THEN TRUE
  ELSE \E i \in 1..Len(nodes[id].kids) : visitArguments(nodes, nodes[id].kids[i])

usesArguments(nodes, body) ==
  /\ TypeOf(nodes, body) = "BlockStatement"
  /\ \E i \in 1..Len(nodes[body].kids) : visitArguments(nodes, nodes[body].kids[i])

RECURSIVE visitSuper(_, _)

\* usesSuper.visit
visitSuper(nodes, id) ==
  IF id = 0 THEN FALSE
  ELSE IF nodes[id].type \in {"FunctionExpression", "FunctionDeclaration"} THEN FALSE
  ELSE IF nodes[id].type = "Super" THEN TRUE
  ELSE \E i \in 1..Len(nodes[id].kids) : visitSuper(nodes, nodes[id].kids[i])

usesSuper(nodes, body) ==
  /\ TypeOf(nodes, body) = "BlockStatement"
  /\ \E i \in 1..Len(nodes[body].kids) : visitSuper(nodes, nodes[body].kids[i])

anonymousFunctionToArrowFilter(nodes, p) ==
  LET node == p.node
      body == Body(nodes, node)
  IN /\ Kid(nodes, node, 1) = 0
     /\ "generator" \notin nodes[node].flags
     /\ ~usesThis(nodes, body)
     /\ ~usesArguments(nodes, body)
     /\ ~usesSuper(nodes, body)

anonymousFunctionToArrowEach(acc, p) ==
  LET nodes == acc.nodes
      node == p.node
      b == Build(nodes, "ArrowFunctionExpression", "",
                 nodes[node].flags \cap {"async"},
                 <<0>> \o Params(nodes, node) \o <<Body(nodes, node)>>)
  IN PassResult(replaceWith(b.nodes, p, b.id), TRUE,
                IF nodes[node].line # 0
                  THEN Append(acc.changes,
                              Change("anonymousFunctionToArrow", nodes[node].line))
                  ELSE acc.changes,
                FALSE)

anonymousFunctionToArrowFind(nodes) ==
  SelectSeq(find(nodes, {"FunctionExpression"}),
            LAMBDA p : anonymousFunctionToArrowFilter(nodes, p))

----------------------------------------------------------------------------
(* arrayConcatToSpread                                                     *)

STRING_METHODS_RETURNING_ARRAY ==
  {"matchAll", "split", "slice", "substr", "substring", "toLowerCase",
   "toUpperCase", "trim", "trimStart", "trimEnd"}

isVerifiableArray(nodes, id) ==
  LET callee == Kid(nodes, id, 1)
  IN \/ TypeOf(nodes, id) = "ArrayExpression"
     \/ /\ TypeOf(nodes, id) = "CallExpression"
        /\ TypeOf(nodes, callee) = "MemberExpression"
        /\ Named(nodes, Kid(nodes, callee, 1), "Array")
     \/ /\ TypeOf(nodes, id) = "NewExpression"
        /\ Named(nodes, callee, "Array")
     \/ /\ TypeOf(nodes, id) = "CallExpression"
        /\ TypeOf(nodes, callee) = "MemberExpression"
        /\ TypeOf(nodes, Kid(nodes, callee, 2)) = "Identifier"
        /\ TypeOf(nodes, Kid(nodes, callee, 1)) = "StringLiteral"
        /\ NameOf(nodes, Kid(nodes, callee, 2)) \in STRING_METHODS_RETURNING_ARRAY

arrayConcatToSpreadFilter(nodes, p) ==
  /\ IsMethodCall(nodes, p.node, "concat")
  /\ Len(Arguments(nodes, p.node)) # 0
  /\ isVerifiableArray(nodes, Kid(nodes, Kid(nodes, p.node, 1), 1))

arrayConcatToSpreadEach(acc, p) ==
  LET nodes == acc.nodes
      node == p.node
      n == Len(nodes)
      baseArray == Kid(nodes, Kid(nodes, node, 1), 1)
      concatArgs == Arguments(nodes, node)
      all == <<baseArray>> \o concatArgs
      elements == [i \in 1..Len(all) |->
                     [type |-> "SpreadElement", name |-> "", flags |-> {},
                      kids |-> <<all[i]>>, line |-> 0]]
      b == Build(nodes \o elements, "ArrayExpression", "", {},
                 [i \in 1..Len(all) |-> n + i])
  IN IF \E i \in 1..Len(all) : TypeOf(nodes, all[i]) \notin ExpressionTypes
       THEN [acc EXCEPT !.threw = TRUE]
     ELSE PassResult(replaceWith(b.nodes, p, b.id), TRUE,
                     IF nodes[node].line # 0
                       THEN Append(acc.changes,
                                   Change("arrayConcatToSpread", nodes[node].line))
                       ELSE acc.changes,
                     FALSE)

arrayConcatToSpreadFind(nodes) ==
  SelectSeq(find(nodes, {"CallExpression"}),
            LAMBDA p : arrayConcatToSpreadFilter(nodes, p))

----------------------------------------------------------------------------
(* promiseTry (newlyAvailable.js)                                          *)

promiseTryFilter(nodes, p) ==
  LET node == p.node
      executor == Kid(nodes, node, 2)
      params == Params(nodes, executor)
      body == Body(nodes, executor)
      stmt == Kid(nodes, body, 1)
      expr == Kid(nodes, stmt, 1)
  IN /\ Named(nodes, Kid(nodes, node, 1), "Promise")
     /\ ~(p.parent # 0 /\ TypeOf(nodes, p.parent) = "AwaitExpression")
     /\ Len(Arguments(nodes, node)) = 1
     /\ TypeOf(nodes, executor) \in {"ArrowFunctionExpression", "FunctionExpression"}
     /\ Len(params) >= 1 /\ Len(params) <= 2
     /\ IF TypeOf(nodes, body) # "BlockStatement"
          THEN /\ TypeOf(nodes, body) = "CallExpression"
               /\ \/ /\ TypeOf(nodes, Kid(nodes, body, 1)) = "Identifier"
                     /\ TypeOf(nodes, params[1]) = "Identifier"
                     /\ NameOf(nodes, Kid(nodes, body, 1)) = NameOf(nodes, params[1])
                     /\ Len(Arguments(nodes, body)) > 0
                  \/ /\ Len(Arguments(nodes, body)) = 1
                     /\ TypeOf(nodes, Kid(nodes, body, 2)) = "Identifier"
                     /\ TypeOf(nodes, params[1]) = "Identifier"
                     /\ NameOf(nodes, Kid(nodes, body, 2)) = NameOf(nodes, params[1])
          ELSE /\ Len(nodes[body].kids) = 1
               /\ TypeOf(nodes, stmt) = "ExpressionStatement"
               /\ TypeOf(nodes, expr) = "CallExpression"
               /\ TypeOf(nodes, Kid(nodes, expr, 1)) = "Identifier"
               \* params[0].name is undefined for a destructured parameter
               /\ TypeOf(nodes, params[1]) = "Identifier"
               /\ NameOf(nodes, Kid(nodes, expr, 1)) = NameOf(nodes, params[1])

\* j.arrowFunctionExpression([], expression)
Thunk(nodes, expression) ==
  LET b == Build(nodes, "ArrowFunctionExpression", "", {}, <<0, expression>>)
  IN [nodes |-> b.nodes, id |-> b.id,
      ok |-> TypeOf(nodes, expression) \in ExpressionTypes \cup {"BlockStatement"}]

\* the rewrite's choice of tryArg: [nodes, id], id = 0 when tryArg stays unset
promiseTryArg(nodes, executor) ==
  LET body == Body(nodes, executor)
      resolveParam == Params(nodes, executor)[1]
      callExpr == Kid(nodes, Kid(nodes, body, 1), 1)
      none == [nodes |-> nodes, id |-> 0, ok |-> TRUE]
  IN IF TypeOf(nodes, body) # "BlockStatement"
       THEN IF /\ TypeOf(nodes, body) = "CallExpression"
               /\ Len(Arguments(nodes, body)) = 1
               /\ TypeOf(nodes, Kid(nodes, body, 2)) = "Identifier"
               /\ TypeOf(nodes, resolveParam) = "Identifier"
               /\ NameOf(nodes, Kid(nodes, body, 2)) = NameOf(nodes, resolveParam)
              THEN [nodes |-> nodes, id |-> Kid(nodes, body, 1), ok |-> TRUE]
            ELSE IF /\ TypeOf(nodes, body) = "CallExpression"
                    /\ TypeOf(nodes, Kid(nodes, body, 1)) = "Identifier"
                    /\ TypeOf(nodes, resolveParam) = "Identifier"
                    /\ NameOf(nodes, Kid(nodes, body, 1)) = NameOf(nodes, resolveParam)
                    /\ Len(Arguments(nodes, body)) > 0
              THEN Thunk(nodes, Kid(nodes, body, 2))
            ELSE none
     ELSE IF /\ Len(nodes[body].kids) = 1
             /\ TypeOf(nodes, Kid(nodes, body, 1)) = "ExpressionStatement"
       THEN IF /\ TypeOf(nodes, callExpr) = "CallExpression"
               /\ Len(Arguments(nodes, callExpr)) > 0
              THEN Thunk(nodes, Kid(nodes, callExpr, 2))
              ELSE none
     ELSE none

promiseTryEach(acc, p) ==
  LET nodes == acc.nodes
      node == p.node
      tryArg == promiseTryArg(nodes, Kid(nodes, node, 2))
      pr == Build(tryArg.nodes, "Identifier", "Promise", {}, <<>>)
      tr == Build(pr.nodes, "Identifier", "try", {}, <<>>)
      me == Build(tr.nodes, "MemberExpression", "", {}, <<pr.id, tr.id>>)
      call == Build(me.nodes, "CallExpression", "", {}, <<me.id, tryArg.id>>)
  IN IF ~tryArg.ok THEN [acc EXCEPT !.threw = TRUE]
     ELSE IF tryArg.id = 0 THEN acc
     ELSE PassResult(replaceWith(call.nodes, p, call.id), TRUE,
                     IF nodes[node].line # 0
                       THEN Append(acc.changes, Change("promiseTry", nodes[node].line))
                       ELSE acc.changes,
                     FALSE)

promiseTryFind(nodes) ==
  SelectSeq(find(nodes, {"NewExpression"}), LAMBDA p : promiseTryFilter(nodes, p))

----------------------------------------------------------------------------
(* The pass lists.  `import * as widelyAvailable` is a module namespace    *)
(* object: its keys are the export names in code-unit order, and that is   *)
(* the order `for (const name in transformers)` runs them in; the spread   *)
(* {...widelyAvailable, ...newlyAvailable} appends newlyAvailable's keys.  *)

widelyAvailable ==
  <<"anonymousFunctionToArrow", "arrayConcatToSpread", "arrayFromForEachToForOf",
    "arrayFromToSpread", "concatToTemplateLiteral", "forLoopToForOf",
    "forOfKeysToForIn", "iterableForEachToForOf", "mathPowToExponentiation",
    "objectAssignToSpread", "varToConst">>

newlyAvailable == <<"promiseTry">>

\* a variant that selects the passes of both tiers whatever the baseline
transformersOfEveryTier(b) == widelyAvailable \o newlyAvailable

\* a variant that reads the name of the tier without regard to case
transformersIgnoringCase(b) ==
  IF b \in {"newly-available", "Newly-Available"}
    THEN widelyAvailable \o newlyAvailable
  ELSE widelyAvailable

transformers(b) ==
  IF b = "newly-available" THEN widelyAvailable \o newlyAvailable ELSE widelyAvailable

\* root.find(...).filter(...) of a pass, evaluated on the tree the pass starts with
Candidates(name, nodes) ==
  CASE name = "anonymousFunctionToArrow" -> anonymousFunctionToArrowFind(nodes)
    [] name = "arrayConcatToSpread" -> arrayConcatToSpreadFind(nodes)
    [] name = "arrayFromForEachToForOf" -> arrayFromForEachToForOfFind(nodes)
    [] name = "arrayFromToSpread" -> arrayFromToSpreadFind(nodes)
    [] name = "concatToTemplateLiteral" -> concatToTemplateLiteralFind(nodes)
    [] name = "forLoopToForOf" -> forLoopToForOfFind(nodes)
    [] name = "forOfKeysToForIn" -> forOfKeysToForInFind(nodes)
    [] name = "iterableForEachToForOf" -> iterableForEachToForOfFind(nodes)
    [] name = "mathPowToExponentiation" -> mathPowToExponentiationFind(nodes)
    [] name = "objectAssignToSpread" -> objectAssignToSpreadFind(nodes)
    [] name = "varToConst" -> varToConstFind(nodes)
    [] name = "promiseTry" -> promiseTryFind(nodes)

\* the filter callback raises on some candidate
FilterThrows(name, nodes) ==
  /\ name = "iterableForEachToForOf"
  /\ LET calls == find(nodes, {"CallExpression"})
     IN \E i \in 1..Len(calls) : iterableForEachToForOfThrows(nodes, calls[i])

\* the forEach callback of a pass
Each(name, acc, p) ==
  CASE name = "anonymousFunctionToArrow" -> anonymousFunctionToArrowEach(acc, p)
    [] name = "arrayConcatToSpread" -> arrayConcatToSpreadEach(acc, p)
    [] name = "arrayFromForEachToForOf" -> arrayFromForEachToForOfEach(acc, p)
    [] name = "arrayFromToSpread" -> arrayFromToSpreadEach(acc, p)
    [] name = "concatToTemplateLiteral" -> concatToTemplateLiteralEach(acc, p)
    [] name = "forLoopToForOf" -> forLoopToForOfEach(acc, p)
    [] name = "forOfKeysToForIn" -> forOfKeysToForInEach(acc, p)
    [] name = "iterableForEachToForOf" -> iterableForEachToForOfEach(acc, p)
    [] name = "mathPowToExponentiation" -> mathPowToExponentiationEach(acc, p)
    [] name = "objectAssignToSpread" -> objectAssignToSpreadEach(acc, p)
    [] name = "varToConst" -> varToConstEach(acc, p)
    [] name = "promiseTry" -> promiseTryEach(acc, p)

\* (below, a value is computed once by drawing it from the set that holds
\* it alone: x \in {e}, and CHOOSE picks the one result)

RECURSIVE forEachFilteringLate(_, _, _, _)

\* a forEach that asks again, before each callback, whether the path is
\* still a candidate in the tree as it is by then
forEachFilteringLate(name, paths, i, acc) ==
  IF i > Len(paths) \/ acc.threw THEN acc
  ELSE CHOOSE out \in
         {forEachFilteringLate(name, paths, i + 1, r) :
            r \in {IF \A late \in {Candidates(name, acc.nodes)} :
                        \E k \in 1..Len(late) : late[k] = paths[i]
                     THEN LET e == Each(name, acc, paths[i])
                          IN [e EXCEPT !.modified = acc.modified \/ e.modified]
                     ELSE acc}} : TRUE

RECURSIVE forEach(_, _, _, _)

\* Collection.forEach: the callback on every path in order; an exception ends it
forEach(name, paths, i, acc) ==
  IF i > Len(paths) \/ acc.threw THEN acc
  ELSE CHOOSE out \in
         {forEach(name, paths, i + 1, r) :
            r \in {LET e == Each(name, acc, paths[i])
                   IN [e EXCEPT !.modified = acc.modified \/ e.modified]}} : TRUE

\* transformers[name](j, root)
RunPass(name, nodes) ==
  IF FilterThrows(name, nodes) THEN PassResult(nodes, FALSE, <<>>, TRUE)
  ELSE CHOOSE out \in
         {forEach(name, paths, 1, r) :
            paths \in {Candidates(name, nodes)},
            r \in {PassResult(nodes, FALSE, <<>>, FALSE)}} : TRUE

anonymousFunctionToArrow(nodes) == RunPass("anonymousFunctionToArrow", nodes)
arrayConcatToSpread(nodes) == RunPass("arrayConcatToSpread", nodes)
arrayFromForEachToForOf(nodes) == RunPass("arrayFromForEachToForOf", nodes)
arrayFromToSpread(nodes) == RunPass("arrayFromToSpread", nodes)
concatToTemplateLiteral(nodes) == RunPass("concatToTemplateLiteral", nodes)
forLoopToForOf(nodes) == RunPass("forLoopToForOf", nodes)
forOfKeysToForIn(nodes) == RunPass("forOfKeysToForIn", nodes)
iterableForEachToForOf(nodes) == RunPass("iterableForEachToForOf", nodes)
mathPowToExponentiation(nodes) == RunPass("mathPowToExponentiation", nodes)
objectAssignToSpread(nodes) == RunPass("objectAssignToSpread", nodes)
varToConst(nodes) == RunPass("varToConst", nodes)
promiseTry(nodes) == RunPass("promiseTry", nodes)

Pass(name, nodes) ==
  CASE name = "anonymousFunctionToArrow" -> anonymousFunctionToArrow(nodes)
    [] name = "arrayConcatToSpread" -> arrayConcatToSpread(nodes)
    [] name = "arrayFromForEachToForOf" -> arrayFromForEachToForOf(nodes)
    [] name = "arrayFromToSpread" -> arrayFromToSpread(nodes)
    [] name = "concatToTemplateLiteral" -> concatToTemplateLiteral(nodes)
    [] name = "forLoopToForOf" -> forLoopToForOf(nodes)
    [] name = "forOfKeysToForIn" -> forOfKeysToForIn(nodes)
    [] name = "iterableForEachToForOf" -> iterableForEachToForOf(nodes)
    [] name = "mathPowToExponentiation" -> mathPowToExponentiation(nodes)
    [] name = "objectAssignToSpread" -> objectAssignToSpread(nodes)
    [] name = "varToConst" -> varToConst(nodes)
    [] name = "promiseTry" -> promiseTry(nodes)

----------------------------------------------------------------------------
(* transform (index.js)                                                    *)

\* the default value of the parameter `baseline`
Tier(b) == IF b = "undefined" THEN "widely-available" ELSE b

\* a variant that sets `modified` whatever the pass returns
IterateAlwaysModified(s, r) ==
  [nodes |-> r.nodes, modified |-> TRUE,
   allChanges |-> IF r.modified THEN s.allChanges \o r.changes ELSE s.allChanges,
   threw |-> r.threw]

\* a variant that puts the changes of a pass before those of the earlier passes
IteratePrepends(s, r) ==
  IF r.threw
    THEN [nodes |-> r.nodes, modified |-> s.modified,
          allChanges |-> s.allChanges, threw |-> TRUE]
    ELSE [nodes |-> r.nodes,
          modified |-> s.modified \/ r.modified,
          allChanges |-> IF r.modified THEN r.changes \o s.allChanges
                                       ELSE s.allChanges,
          threw |-> FALSE]

\* the body of the loop over the transformers, r being the result of
\* transformers[name](j, root); s = [nodes, modified, allChanges, threw]
Iterate(s, r) ==
  IF r.threw
    THEN [nodes |-> r.nodes, modified |-> s.modified,
          allChanges |-> s.allChanges, threw |-> TRUE]
    ELSE [nodes |-> r.nodes,
          modified |-> s.modified \/ r.modified,
          allChanges |-> IF r.modified THEN s.allChanges \o r.changes
                                       ELSE s.allChanges,
          threw |-> FALSE]

RECURSIVE RunAll(_, _, _)

\* for (const name in transformers) { ... }
RunAll(s, names, i) ==
  IF i > Len(names) \/ s.threw THEN s
  ELSE CHOOSE out \in
         {RunAll(t, names, i + 1) : t \in {Iterate(s, Pass(names[i], s.nodes))}} : TRUE

NoResult == [code |-> Null, modified |-> FALSE, changes |-> <<>>, returned |-> FALSE]

TransformResult(c, m, ch) ==
  [code |-> c, modified |-> m, changes |-> ch, returned |-> TRUE]

\* the whole call as a function of its arguments; NoResult when it raises
transform(text, blank, b) ==
  IF SyntaxError(text) THEN NoResult
  ELSE
  CHOOSE out \in
    {IF s.threw THEN NoResult
     ELSE TransformResult(toSource(s.nodes, Root), s.modified, s.allChanges) :
       s \in {RunAll(s0, transformers(Tier(b)), 1) :
                s0 \in {[nodes |-> Parse(text, blank), modified |-> FALSE,
                         allChanges |-> <<>>, threw |-> FALSE]}}} : TRUE

----------------------------------------------------------------------------
(* Inputs: the programs transform is called on                             *)

MaxLeaves == 4
MaxStmts == 2
MaxLead == 1

StrNames == <<"a", "b", "c", "d", "e", "f">>
VarNames == <<"u", "v", "w", "x", "y", "z">>

RECURSIVE Chains(_, _)

\* every tree of binary operators over the operands lo..hi, operand i being
\* the string literal StrNames[i] or the identifier VarNames[i]
Chains(lo, hi) ==
  IF lo = hi THEN {Str(StrNames[lo]), Id(VarNames[lo])}
  ELSE UNION {{Bin("+", l, r) : l \in Chains(lo, k), r \in Chains(k + 1, hi)} :
              k \in lo..(hi - 1)}

ChainInputs ==
  {Program(<<ExprStmt(c)>>) : c \in UNION {Chains(1, n) : n \in 2..MaxLeaves}}

\* function expressions with a reference at some place
Reference(kind) ==
  CASE kind = "this" -> Member(This, Id("value"))
    [] kind = "arguments" -> Index(Id("arguments"), Num("0"))
    [] kind = "none" -> Id("x")

FunctionWith(flags, id, kind, place) ==
  LET ref == Reference(kind)
  IN CASE place = "body" ->
            Func(flags, id, <<Id("p")>>, Block(<<Return(ref)>>))
       [] place = "arrow" ->
            Func(flags, id, <<Id("p")>>, Block(<<Return(Arrow(<<>>, ref))>>))
       [] place = "function" ->
            Func(flags, id, <<Id("p")>>,
                 Block(<<Return(Func({}, Null, <<>>, Block(<<Return(ref)>>)))>>))
       [] place = "default" ->
            Func(flags, id, <<Default(Id("p"), ref)>>, Block(<<Return(Id("p"))>>))

FunctionInputs ==
  {Program(<<Decl("const", "fn", FunctionWith(flags, id, kind, place))>>) :
     flags \in {{}, {"async"}, {"generator"}},
     id \in {Null, Id("named")},
     kind \in {"this", "arguments", "none"},
     place \in {"body", "arrow", "function", "default"}}

\* forEach calls: receiver x callback x position of the call
Receivers ==
  {Method(Id("Array"), "from", <<>>),
   Method(Id("Array"), "from", <<Id("items")>>),
   Method(Id("Array"), "from", <<Id("items"), Id("mapFn")>>),
   Method(Id("Array"), "of", <<Id("items")>>),
   Method(Id("document"), "querySelectorAll", <<Str(".item")>>),
   Method(Id("document"), "getElementById", <<Str("id")>>),
   Method(Method(Id("document"), "getElementById", <<Str("id")>>),
          "querySelectorAll", <<Str(".item")>>),
   Method(Id("element"), "querySelectorAll", <<Str(".item")>>),
   Method(This, "querySelectorAll", <<Str(".item")>>),
   Method(Call(Id("getRoot"), <<>>), "querySelectorAll", <<Str(".item")>>),
   Member(Id("window"), Id("frames")),
   Member(Id("constructor"), Id("frames")),
   Id("items"),
   Member(Id("self"), Id("frames")),
   Member(Id("window"), Id("parent")),
   Index(Id("window"), Id("frames")),
   Call(Index(Id("document"), Id("querySelectorAll")), <<Str(".item")>>),
   Method(Id("document"), "getElementsByName", <<Str("n")>>),
   Method(Member(Id("document"), Id("body")), "getElementsByTagName", <<Str("p")>>),
   Method(Member(Id("element"), Id("document")), "querySelectorAll", <<Str(".item")>>),
   Method(Str("document"), "querySelectorAll", <<Str(".item")>>)}

UseItem == Call(Id("use"), <<Id("item")>>)

Callbacks ==
  {<<>>,
   <<Id("callback")>>,
   <<Arrow(<<>>, Block(<<ExprStmt(UseItem)>>))>>,
   <<Arrow(<<Id("item")>>, UseItem)>>,
   <<Arrow(<<Id("item")>>, Block(<<ExprStmt(UseItem)>>))>>,
   <<Func({}, Null, <<Id("item")>>, Block(<<ExprStmt(UseItem)>>))>>,
   <<Arrow(<<Id("item"), Id("index")>>, Block(<<ExprStmt(UseItem)>>))>>,
   <<Arrow(<<ArrPat(<<Id("item"), Id("value")>>), Id("index")>>,
           Block(<<ExprStmt(UseItem)>>))>>}

ForEachInputs ==
  {Program(<<ExprStmt(Method(r, "forEach", cb))>>) : r \in Receivers, cb \in Callbacks}
  \cup
  {Program(<<Decl("const", "r", Method(r, "forEach", cb))>>) :
     r \in {Method(Id("Array"), "from", <<Id("items")>>),
            Method(Id("document"), "querySelectorAll", <<Str(".item")>>)},
     cb \in Callbacks}
  \cup
  {Program(<<ExprStmt(Call(Index(r, Id("forEach")),
                           <<Arrow(<<Id("item")>>, Block(<<ExprStmt(UseItem)>>))>>))>>) :
     r \in {Method(Id("Array"), "from", <<Id("items")>>),
            Method(Id("document"), "querySelectorAll", <<Str(".item")>>),
            Member(Id("window"), Id("frames"))}}

\* new Promise(...) expressions
ExecutorCalls ==
  {Call(Id("resolve"), <<Call(Id("getData"), <<>>)>>),
   Call(Id("setTimeout"), <<Id("resolve")>>),
   Call(Id("resolve"), <<>>),
   Call(Id("resolve"), <<Id("a"), Id("b")>>),
   Call(Id("resolve"), <<Call(Id("work"), <<Id("reject")>>)>>),
   Call(Id("resolve"), <<Call(Id("work"), <<Id("resolve")>>)>>),
   Call(Id("resolve"), <<Id("resolve")>>),
   Call(Id("reject"), <<Id("resolve")>>),
   Call(Id("work"), <<Id("resolve"), Id("x")>>),
   Call(Id("work"), <<Id("x")>>),
   Call(Id("resolve"), <<Spread(Id("rest"))>>)}

ExecutorBodies ==
  ExecutorCalls \cup {Id("x")}
  \cup {Block(<<ExprStmt(c)>>) : c \in ExecutorCalls}
  \cup {Block(<<Return(c)>>) : c \in ExecutorCalls}
  \cup {Block(<<ExprStmt(c), ExprStmt(Call(Id("log"), <<>>))>>) : c \in ExecutorCalls}

ResolveReject == <<Id("resolve"), Id("reject")>>

Executors ==
  {Arrow(ResolveReject, b) : b \in ExecutorBodies}
  \cup {Func({}, Null, ResolveReject, b) :
          b \in {x \in ExecutorBodies : x.type = "BlockStatement"}}
  \cup {Arrow(ps, b) :
          ps \in {<<>>, <<Id("resolve")>>, <<Id("resolve"), Id("reject"), Id("x")>>,
                  <<ArrPat(<<Id("resolve")>>)>>},
          b \in {Call(Id("resolve"), <<Call(Id("getData"), <<>>)>>),
                 Call(Id("setTimeout"), <<Id("resolve")>>),
                 Block(<<ExprStmt(Call(Id("resolve"), <<Id("a")>>))>>)}}

PromiseInputs ==
  {Program(<<Decl("const", "p", NewT(Id("Promise"), <<e>>))>>) : e \in Executors}
  \cup
  {Program(<<ExprStmt(x)>>) :
     x \in {Await(NewT(Id("Promise"),
                       <<Arrow(<<Id("resolve")>>,
                               Call(Id("resolve"), <<Call(Id("getData"), <<>>)>>))>>)),
            NewT(Id("Promise"), <<>>),
            NewT(Id("Promise"), <<Id("executor")>>),
            NewT(Id("Promise"),
                 <<Arrow(<<Id("resolve")>>, Call(Id("resolve"), <<Id("a")>>)), Id("b")>>),
            NewT(Id("Other"),
                 <<Arrow(<<Id("resolve")>>, Call(Id("resolve"), <<Id("a")>>))>>)}}

\* counted loops
Loop(k1, k2, pre, rest) ==
  For(Decl(k1, "i", Num("0")),
      Bin("<", Id("i"), Member(Id("arr"), Id("length"))),
      Update("++", pre, Id("i")),
      Block(<<Decl(k2, "item", Index(Id("arr"), Id("i")))>> \o rest))

LoopInputs ==
  {Program(<<Loop(k1, k2, pre, rest)>>) :
     k1 \in {"var", "let"}, k2 \in {"var", "let", "const"}, pre \in BOOLEAN,
     rest \in {<<>>, <<ExprStmt(UseItem)>>,
               <<ExprStmt(Call(Id("use"), <<Id("item"), Id("i")>>))>>,
               <<Decl("var", "copy", Id("item"))>>}}

\* counted loops that miss one of the conditions of the rewrite, and loops
\* inside loops
CountFrom(init) ==
  For(init,
      Bin("<", Id("i"), Member(Id("arr"), Id("length"))),
      Update("++", FALSE, Id("i")),
      Block(<<Decl("const", "item", Index(Id("arr"), Id("i"))), ExprStmt(UseItem)>>))

CountTo(test) ==
  For(Decl("let", "i", Num("0")), test, Update("++", FALSE, Id("i")),
      Block(<<Decl("const", "item", Index(Id("arr"), Id("i"))), ExprStmt(UseItem)>>))

CountBy(update) ==
  For(Decl("let", "i", Num("0")),
      Bin("<", Id("i"), Member(Id("arr"), Id("length"))),
      update,
      Block(<<Decl("const", "item", Index(Id("arr"), Id("i"))), ExprStmt(UseItem)>>))

CountOver(body) ==
  For(Decl("let", "i", Num("0")),
      Bin("<", Id("i"), Member(Id("arr"), Id("length"))),
      Update("++", FALSE, Id("i")),
      body)

\* for (let j = 0; j < item.length; j++) { const x = item[j]; use(x) }
InnerLoop ==
  For(Decl("let", "j", Num("0")),
      Bin("<", Id("j"), Member(Id("item"), Id("length"))),
      Update("++", FALSE, Id("j")),
      Block(<<Decl("const", "x", Index(Id("item"), Id("j"))),
              ExprStmt(Call(Id("use"), <<Id("x")>>))>>))

LoopShapes ==
  {CountFrom(init) :
     init \in {Null,
               Assign(Id("i"), Num("0")),
               Decl("let", "i", Num("1")),
               Decl("let", "i", Null),
               Decl("let", "i", Str("0")),
               VarDecl("let", <<Declarator(Id("i"), Num("0")),
                                Declarator(Id("n"), Num("0"))>>),
               VarDecl("let", <<Declarator(ArrPat(<<Id("i")>>), Num("0"))>>)}}
  \cup
  {CountTo(test) :
     test \in {Null,
               Id("i"),
               Bin("<=", Id("i"), Member(Id("arr"), Id("length"))),
               Bin("<", Id("n"), Member(Id("arr"), Id("length"))),
               Bin("<", Id("i"), Id("n")),
               Bin("<", Id("i"), Member(Id("arr"), Id("size"))),
               Bin("<", Id("i"), Index(Id("arr"), Id("length"))),
               Bin("<", Id("i"), Index(Id("arr"), Str("length"))),
               Bin("<", Id("i"), Member(Id("other"), Id("length"))),
               Bin("<", Id("i"), Member(Member(This, Id("arr")), Id("length")))}}
  \cup
  {CountBy(update) :
     update \in {Null,
                 Update("--", FALSE, Id("i")),
                 Update("++", TRUE, Id("n")),
                 Update("++", FALSE, Member(Id("i"), Id("n"))),
                 Assign(Id("i"), Bin("+", Id("i"), Num("1")))}}
  \cup
  {CountOver(body) :
     body \in {ExprStmt(UseItem),
               Block(<<>>),
               Block(<<ExprStmt(UseItem)>>),
               Block(<<ExprStmt(UseItem),
                       Decl("const", "item", Index(Id("arr"), Id("i")))>>),
               Block(<<VarDecl("const",
                               <<Declarator(Id("item"), Index(Id("arr"), Id("i"))),
                                 Declarator(Id("n"), Num("0"))>>)>>),
               Block(<<VarDecl("const",
                               <<Declarator(ArrPat(<<Id("item")>>),
                                            Index(Id("arr"), Id("i")))>>)>>),
               Block(<<Decl("const", "item", Id("arr"))>>),
               Block(<<Decl("const", "item", Member(Id("arr"), Id("i")))>>),
               Block(<<Decl("const", "item", Index(Id("arr"), Num("0")))>>),
               Block(<<Decl("const", "item", Index(Id("other"), Id("i")))>>),
               Block(<<Decl("const", "item",
                            Index(Member(This, Id("arr")), Id("i")))>>),
               Block(<<Decl("const", "item", Index(Id("arr"), Id("i"))),
                       ExprStmt(Call(Id("later"),
                                     <<Arrow(<<>>, Call(Id("use"), <<Id("i")>>))>>))>>),
               Block(<<Decl("const", "item", Index(Id("arr"), Id("i"))),
                       ExprStmt(Call(Id("use"), <<Member(Id("item"), Id("i"))>>))>>),
               Block(<<Decl("const", "item", Index(Id("arr"), Id("i"))),
                       InnerLoop>>),
               Block(<<Decl("const", "item", Index(Id("arr"), Id("i"))),
                       ExprStmt(UseItem),
                       InnerLoop>>),
               Block(<<Decl("const", "item", Index(Id("arr"), Id("n"))),
                       InnerLoop>>),
               Block(<<InnerLoop>>)}}

LoopShapeInputs == {Program(<<l>>) : l \in LoopShapes}

\* one statement for every pass, and statements no pass matches
Statements ==
  {Decl("var", "v", Num("1")),
   ExprStmt(Assign(Id("v"), Num("3"))),
   ExprStmt(Call(Id("f"), <<Id("x")>>)),
   ExprStmt(Bin("+", Str("a"), Id("x"))),
   ExprStmt(Method(Id("Math"), "pow", <<Id("a"), Id("b")>>)),
   ExprStmt(Method(Id("Math"), "pow",
                   <<Method(Id("Math"), "pow", <<Id("a"), Id("b")>>), Id("c")>>)),
   ExprStmt(Method(Id("Object"), "assign", <<Obj(<<>>), Id("data")>>)),
   ExprStmt(Method(Id("Object"), "assign", <<Obj(<<>>), Spread(Id("rest"))>>)),
   ExprStmt(Method(Arr(<<Num("1")>>), "concat", <<Id("other")>>)),
   ExprStmt(Method(Method(Id("Array"), "from", <<Id("items")>>), "map", <<Id("f")>>)),
   ExprStmt(Method(Method(Id("Array"), "from", <<Id("items")>>), "forEach",
                   <<Arrow(<<Id("item")>>, UseItem)>>)),
   ForOf(VarDecl("const", <<Declarator(Id("key"), Null)>>),
         Method(Id("Object"), "keys", <<Id("obj")>>),
         Block(<<ExprStmt(Call(Id("use"), <<Id("key")>>))>>)),
   Loop("let", "var", FALSE, <<ExprStmt(UseItem)>>),
   Decl("const", "p",
        NewT(Id("Promise"),
             <<Arrow(<<Id("resolve")>>,
                     Call(Id("resolve"), <<Call(Id("getData"), <<>>)>>))>>)),
   Decl("const", "fn",
        Func({}, Null, <<Id("p")>>,
             Block(<<Decl("var", "t", Id("p")), Return(Id("t"))>>)))}

StatementInputs == {Program(<<st>>) : st \in Statements}

\* uses of Array.from: alone, chained, nested, with 0 to 3 arguments, and as
\* the object of a member named forEach
ArrayFromUses ==
  {Method(Id("Array"), "from", <<Id("items")>>),
   Method(Id("Array"), "from", <<>>),
   Method(Id("Array"), "from", <<Id("items"), Id("mapFn")>>),
   Method(Id("Array"), "from", <<Id("items"), Id("mapFn"), Id("context")>>),
   Method(Id("Array"), "from", <<Spread(Id("rest"))>>),
   Method(Id("Array"), "from", <<Method(Id("Array"), "from", <<Id("items")>>)>>),
   Method(Method(Id("Array"), "from", <<Id("items")>>), "filter", <<Id("f")>>),
   Call(Id("use"), <<Method(Id("Array"), "from", <<Id("items")>>)>>),
   Member(Method(Id("Array"), "from", <<Id("items")>>), Id("forEach")),
   Member(Method(Id("Array"), "from", <<Id("items")>>), Id("length")),
   Call(Index(Method(Id("Array"), "from", <<Id("items")>>), Id("forEach")),
        <<Id("callback")>>),
   Method(Method(Id("Array"), "from", <<Id("items"), Id("mapFn")>>), "forEach",
          <<Id("callback")>>)}

ArrayFromInputs == {Program(<<Decl("const", "r", u)>>) : u \in ArrayFromUses}

\* receivers of `.concat(...)`
ConcatReceivers ==
  {Arr(<<Num("1")>>),
   Arr(<<>>),
   Method(Id("Array"), "from", <<Id("items")>>),
   Method(Id("Array"), "of", <<Num("1"), Num("2")>>),
   NewT(Id("Array"), <<Num("3")>>),
   Method(Str("a,b"), "split", <<Str(",")>>),
   Method(Str("a"), "trim", <<>>),
   Method(Str("a"), "repeat", <<Num("2")>>),
   Method(Id("str"), "split", <<Str(",")>>),
   Id("arr"),
   Str("a"),
   Call(Id("Array"), <<Num("3")>>),
   Call(Index(Id("Array"), Id("from")), <<Id("items")>>),
   Call(Index(Str("a,b"), Id("split")), <<Str(",")>>),
   Method(Member(Id("lib"), Id("Array")), "from", <<Id("items")>>),
   NewT(Member(Id("lib"), Id("Array")), <<Num("3")>>),
   Method(Arr(<<Num("1")>>), "concat", <<Id("more")>>),
   Method(Id("Array"), "from", <<Method(Arr(<<Num("1")>>), "concat", <<Id("more")>>)>>)}

\* argument lists of `.concat(...)`
ConcatArguments ==
  {<<>>,
   <<Id("other")>>,
   <<Arr(<<Num("3")>>), Id("x"), Num("4")>>,
   <<Spread(Id("rest"))>>,
   <<Method(Arr(<<Num("2")>>), "concat", <<Id("x")>>)>>}

ConcatInputs ==
  {Program(<<Decl("const", "result", Method(r, "concat", as))>>) :
     r \in ConcatReceivers, as \in ConcatArguments}
  \cup
  {Program(<<ExprStmt(Call(Index(r, Id("concat")), <<Id("other")>>))>>) :
     r \in {Arr(<<Num("1")>>), Id("arr")}}
  \cup
  {Program(<<ExprStmt(Method(Arr(<<Num("1")>>), "push", <<Id("other")>>))>>)}

\* Math.pow calls inside Math.pow calls
Pow(base, exponent) == Method(Id("Math"), "pow", <<base, exponent>>)

PowInputs ==
  {Program(<<ExprStmt(e)>>) :
     e \in {Pow(Pow(Id("a"), Id("b")), Id("c")),
            Pow(Id("a"), Pow(Id("b"), Id("c"))),
            Pow(Pow(Pow(Id("a"), Id("b")), Id("c")), Id("d")),
            Pow(Call(Id("f"), <<Pow(Id("a"), Id("b"))>>), Id("c")),
            Pow(Bin("*", Pow(Id("a"), Id("b")), Num("2")), Id("c")),
            Pow(Pow(Id("a"), Id("b")), Pow(Id("c"), Id("d"))),
            Call(Id("f"), <<Pow(Id("a"), Id("b")), Pow(Id("c"), Id("d"))>>),
            Pow(Method(Id("Math"), "pow", <<Id("a")>>), Id("c")),
            Pow(Id("a"), Id("b"))}}

\* sources the parser rejects
MalformedInputs ==
  {Program(<<Invalid>>),
   Program(<<Decl("var", "v", Num("1")), Invalid>>),
   Program(<<Decl("const", "v", Num("1")), Decl("const", "v", Num("2"))>>),
   Program(<<Decl("let", "v", Num("1")), Decl("var", "v", Num("2"))>>),
   Program(<<ExprStmt(Call(Id("run"),
                 <<Arrow(<<>>, Block(<<Decl("let", "t", Num("1")),
                                       Decl("const", "t", Num("2"))>>))>>))>>)}

\* more than one `var` for one name
VarAgainInputs ==
  {Program(<<Decl("var", "v", Num("1")), Decl("var", "v", Num("2"))>>),
   Program(<<Decl("var", "v", Num("1")), Decl("var", "w", Num("2"))>>),
   Program(<<VarDecl("var", <<Declarator(Id("v"), Num("1")),
                              Declarator(Id("w"), Num("2"))>>)>>),
   Program(<<ExprStmt(Call(Id("run"),
                 <<Arrow(<<>>, Block(<<Decl("var", "t", Num("1")),
                                       Decl("var", "t", Num("2"))>>))>>))>>)}

\* statements that programs of several statements are made of
MixStmts ==
  {Decl("var", "v", Num("1")),
   ExprStmt(Assign(Id("v"), Num("3"))),
   ExprStmt(Call(Id("f"), <<Id("x")>>)),
   ExprStmt(Bin("+", Str("a"), Id("x"))),
   ExprStmt(Method(Id("Math"), "pow", <<Id("a"), Id("b")>>)),
   ExprStmt(Method(Method(Id("Array"), "from", <<Id("items")>>), "forEach",
                   <<Arrow(<<Id("item")>>, UseItem)>>)),
   ExprStmt(Call(Id("apply"),
                 <<Func({}, Null, <<Id("p")>>,
                        Block(<<Decl("var", "t", Id("p")), Return(Id("t"))>>))>>))}

RECURSIVE Seqs(_, _)

\* the sequences of at most n elements of S
Seqs(S, n) ==
  IF n = 0 THEN {<<>>}
  ELSE LET shorter == Seqs(S, n - 1)
       IN shorter \cup {Append(q, x) : q \in shorter, x \in S}

MixInputs == {Program(q) : q \in Seqs(MixStmts, MaxStmts)}

Inputs ==
  ChainInputs \cup FunctionInputs \cup ForEachInputs \cup PromiseInputs
  \cup LoopInputs \cup LoopShapeInputs \cup StatementInputs \cup MixInputs
  \cup MalformedInputs \cup VarAgainInputs \cup PowInputs \cup ConcatInputs
  \cup ArrayFromInputs

Baselines ==
  {"undefined", "widely-available", "newly-available", "Newly-Available",
   "experimental"}

----------------------------------------------------------------------------
(* transform as a state machine: the call, one step for each pass of the   *)
(* loop, the return                                                        *)

Init ==
  /\ code \in Inputs
  /\ lead \in 0..MaxLead
  /\ baseline \in Baselines
  /\ pc = "call"
  /\ next = 1
  /\ ast = <<>>
  /\ modified = FALSE
  /\ allChanges = <<>>
  /\ ran = <<>>
  /\ result = NoResult
  /\ argv = [files |-> <<>>, check |-> FALSE, write |-> FALSE, baseline |-> "widely-available"]
  /\ disk = <<>>
  /\ cli = "idle"
  /\ files = <<>>
  /\ file = 0
  /\ modifiedCount = 0
  /\ stdout = <<>>
  /\ stderr = <<>>
  /\ written = <<>>
  /\ exitCode = -1

\* a call that goes on with the changes of the call before it
CallKeepingChanges ==
  /\ pc = "call"
  /\ IF SyntaxError(code)
       THEN /\ pc' = "threw"
            /\ UNCHANGED <<ast, modified, allChanges>>
       ELSE /\ ast' = Parse(code, lead)
            /\ modified' = FALSE
            /\ allChanges' = allChanges
            /\ pc' = "loop"
  /\ next' = 1
  /\ ran' = <<>>
  /\ result' = NoResult
  /\ UNCHANGED <<code, lead, baseline>>
  /\ UNCHANGED cliVars

\* const root = j(code); let modified = false; const allChanges = [];
\* nothing is returned yet and the loop is at its first transformer
Call_ ==
  /\ pc = "call"
  /\ IF SyntaxError(code)
       THEN /\ pc' = "threw"
            /\ UNCHANGED <<ast, modified, allChanges>>
       ELSE /\ ast' = Parse(code, lead)
            /\ modified' = FALSE
            /\ allChanges' = <<>>
            /\ pc' = "loop"
  /\ next' = 1
  /\ ran' = <<>>
  /\ result' = NoResult
  /\ UNCHANGED <<code, lead, baseline>>
  /\ UNCHANGED cliVars

\* the loop body for the transformer called name
Step(name) ==
  /\ pc = "loop"
  /\ next <= Len(transformers(Tier(baseline)))
  /\ transformers(Tier(baseline))[next] = name
  /\ \E r \in {Pass(name, ast)} :
     \E s \in {Iterate([nodes |-> ast, modified |-> modified,
                        allChanges |-> allChanges, threw |-> FALSE], r)} :
        /\ ast' = s.nodes
        /\ modified' = s.modified
        /\ allChanges' = s.allChanges
        /\ ran' = Append(ran, [name |-> name, modified |-> r.modified,
                               changes |-> r.changes, threw |-> r.threw])
        /\ pc' = IF s.threw THEN "threw" ELSE "loop"
        /\ next' = next + 1
  /\ UNCHANGED <<code, lead, baseline, result>>
  /\ UNCHANGED cliVars

RunAnonymousFunctionToArrow == Step("anonymousFunctionToArrow")
RunArrayConcatToSpread == Step("arrayConcatToSpread")
RunArrayFromForEachToForOf == Step("arrayFromForEachToForOf")
RunArrayFromToSpread == Step("arrayFromToSpread")
RunConcatToTemplateLiteral == Step("concatToTemplateLiteral")
RunForLoopToForOf == Step("forLoopToForOf")
RunForOfKeysToForIn == Step("forOfKeysToForIn")
RunIterableForEachToForOf == Step("iterableForEachToForOf")
RunMathPowToExponentiation == Step("mathPowToExponentiation")
RunObjectAssignToSpread == Step("objectAssignToSpread")
RunVarToConst == Step("varToConst")
RunPromiseTry == Step("promiseTry")

\* return { code: root.toSource(), modified, changes: allChanges }
ReturnResult ==
  /\ pc = "loop"
  /\ next > Len(transformers(Tier(baseline)))
  /\ result' = TransformResult(toSource(ast, Root), modified, allChanges)
  /\ pc' = "done"
  /\ UNCHANGED <<code, lead, baseline, next, ast, modified, allChanges, ran>>
  /\ UNCHANGED cliVars

Next ==
  \/ Call_
  \/ RunAnonymousFunctionToArrow
  \/ RunArrayConcatToSpread
  \/ RunArrayFromForEachToForOf
  \/ RunArrayFromToSpread
  \/ RunConcatToTemplateLiteral
  \/ RunForLoopToForOf
  \/ RunForOfKeysToForIn
  \/ RunIterableForEachToForOf
  \/ RunMathPowToExponentiation
  \/ RunObjectAssignToSpread
  \/ RunVarToConst
  \/ RunPromiseTry
  \/ ReturnResult

Spec == Init /\ [][Next]_vars

----------------------------------------------------------------------------
(* The command line tool: program.action, findFiles, walkDirectory,        *)
(* processFile and processFiles                                            *)

MaxFiles == 2

\* the texts of the files of the file system
Modern == Program(<<Decl("const", "v", Num("1"))>>)
Old == Program(<<Decl("var", "v", Num("1"))>>)
Broken == Program(<<ExprStmt(Invalid)>>)
Promised ==
  Program(<<Decl("const", "p",
                 NewT(Id("Promise"),
                      <<Arrow(<<Id("resolve")>>,
                              Call(Id("resolve"), <<Call(Id("getData"), <<>>)>>))>>))>>)

\* the file system at the start of the command
Disk ==
  [path \in {"modern.js", "old.js", "broken.js", "promise.js", "dir/view.jsx",
             "dir/notes.txt", "dir/node_modules/dep.js", "docs/readme.md"} |->
     CASE path = "modern.js" -> Modern
       [] path = "broken.js" -> Broken
       [] path = "promise.js" -> Promised
       [] OTHER -> Old]

Patterns == {"modern.js", "old.js", "broken.js", "promise.js", "dir", "docs", "gone"}

Entry(name, ext, fullPath, kind) ==
  [name |-> name, ext |-> ext, fullPath |-> fullPath, kind |-> kind]

\* fs.readdirSync(dir, { withFileTypes: true }), with path.join(dir, name)
\* and path.extname(name) of every entry
readdirSync(dir) ==
  CASE dir = "dir" -> <<Entry("node_modules", "", "dir/node_modules", "directory"),
                        Entry("notes.txt", ".txt", "dir/notes.txt", "file"),
                        Entry("view.jsx", ".jsx", "dir/view.jsx", "file")>>
    [] dir = "dir/node_modules" -> <<Entry("dep.js", ".js", "dir/node_modules/dep.js", "file")>>
    [] dir = "docs" -> <<Entry("readme.md", ".md", "docs/readme.md", "file")>>
    [] OTHER -> <<>>

\* fs.statSync(pattern): "file", "directory", or "ENOENT" when it throws
statSync(pattern) ==
  IF pattern \in DOMAIN Disk THEN "file"
  ELSE IF pattern \in {"dir", "dir/node_modules", "docs"} THEN "directory"
  ELSE "ENOENT"

RECURSIVE walkDirectory(_)

walkDirectory(dir) ==
  LET entries == readdirSync(dir)
      Of(entry) ==
        IF entry.kind = "directory"
          THEN IF entry.name = "node_modules" \/ entry.name = ".git" THEN <<>>
               ELSE walkDirectory(entry.fullPath)
        ELSE IF entry.ext \in {".js", ".jsx", ".ts", ".tsx", ".mjs", ".cjs"}
          THEN <<entry.fullPath>>
        ELSE <<>>
  IN Flat([i \in 1..Len(entries) |-> Of(entries[i])])

RECURSIVE findFilesFrom(_, _, _)

\* the loop of findFiles from pattern i on, found being `files` so far;
\* [files, error]: error is the pattern that cannot be accessed, "" if none
findFilesFrom(patterns, i, found) ==
  IF i > Len(patterns) THEN [files |-> found, error |-> ""]
  ELSE LET pattern == patterns[i]
           stats == statSync(pattern)
       IN IF stats = "ENOENT" THEN [files |-> found, error |-> pattern]
          ELSE findFilesFrom(patterns, i + 1,
                 found \o (IF stats = "file" THEN <<pattern>> ELSE walkDirectory(pattern)))

findFiles(patterns) == findFilesFrom(patterns, 1, <<>>)

\* writing that does not depend on the flags
shouldWriteAlways(options) == TRUE

\* const shouldWrite = options.write !== undefined ? options.write : !options.check
\* (a flag that is not given is undefined, a given one is true)
shouldWrite(options) == IF options.write THEN TRUE ELSE ~options.check

\* const shouldCheck = options.check || false
shouldCheck(options) == options.check

Line(text, about) == [text |-> text, about |-> about]

\* type.replace(/([A-Z])/g, " $1").trim().toLowerCase()
displayName(type) ==
  CASE type = "anonymousFunctionToArrow" -> "anonymous function to arrow"
    [] type = "arrayConcatToSpread" -> "array concat to spread"
    [] type = "arrayFromForEachToForOf" -> "array from for each to for of"
    [] type = "arrayFromToSpread" -> "array from to spread"
    [] type = "concatToTemplateLiteral" -> "concat to template literal"
    [] type = "forLoopToForOf" -> "for loop to for of"
    [] type = "forOfKeysToForIn" -> "for of keys to for in"
    [] type = "iterableForEachToForOf" -> "iterable for each to for of"
    [] type = "mathPowToExponentiation" -> "math pow to exponentiation"
    [] type = "objectAssignToSpread" -> "object assign to spread"
    [] type = "promiseTry" -> "promise try"
    [] type = "varToConst" -> "var to const"
    [] OTHER -> type

\* the lines processFile prints for the changes, one for each type in the
\* order the types first occur, with the set of the lines of that type
changesByType(changes) ==
  LET first == SelectSeq([i \in 1..Len(changes) |-> i],
                 LAMBDA i : \A k \in 1..(i - 1) : changes[k].type # changes[i].type)
  IN [n \in 1..Len(first) |->
        [text |-> displayName(changes[first[n]].type),
         lines |-> {changes[k].line : k \in {k \in 1..Len(changes) :
                                               changes[k].type = changes[first[n]].type}}]]

CliInit ==
  /\ argv \in [files : Seqs(Patterns, MaxFiles) \ {<<>>},
               check : BOOLEAN, write : BOOLEAN,
               baseline : {"widely-available", "newly-available"}]
  /\ disk = Disk
  /\ cli = "action"
  /\ files = <<>>
  /\ file = 0
  /\ modifiedCount = 0
  /\ stdout = <<>>
  /\ stderr = <<>>
  /\ written = <<>>
  /\ exitCode = -1
  /\ code = Null
  /\ lead = 0
  /\ baseline = argv.baseline
  /\ pc = "idle"
  /\ next = 1
  /\ ast = <<>>
  /\ modified = FALSE
  /\ allChanges = <<>>
  /\ ran = <<>>
  /\ result = NoResult

\* program.action and processFiles up to its loop
action ==
  /\ cli = "action"
  /\ \E found \in {findFiles(argv.files)} :
       IF found.error # ""
         THEN /\ stderr' = Append(stderr, Line("Error: Cannot access", found.error))
              /\ exitCode' = 1
              /\ cli' = "exit"
              /\ UNCHANGED <<files, file, stdout>>
       ELSE IF Len(found.files) = 0
         THEN /\ stdout' = Append(stdout, Line("No JavaScript files found", ""))
              /\ exitCode' = 0
              /\ cli' = "exit"
              /\ UNCHANGED <<files, file, stderr>>
       ELSE /\ files' = found.files
            /\ stdout' = Append(stdout, Line("Processing", argv.baseline))
            /\ file' = 1
            /\ cli' = "file"
            /\ UNCHANGED <<stderr, exitCode>>
  /\ modifiedCount' = 0
  /\ UNCHANGED <<argv, disk, written>>
  /\ UNCHANGED <<code, lead, baseline, pc, next, ast, modified, allChanges, ran, result>>

\* processFile up to its call of transform
processFile ==
  /\ cli = "file"
  /\ code' = disk[files[file]]
  /\ lead' = 0
  /\ baseline' = argv.baseline
  /\ pc' = "call"
  /\ cli' = "transform"
  /\ UNCHANGED <<next, ast, modified, allChanges, ran, result>>
  /\ UNCHANGED <<argv, disk, files, file, modifiedCount, stdout, stderr, written, exitCode>>

\* what processFile does with the result of transform
processFileReturned(filePath, options) ==
  IF result.modified
    THEN /\ stdout' = stdout
                      \o (IF options.check
                            THEN <<Line("needs upgrading", filePath)>>
                                 \o changesByType(result.changes)
                            ELSE <<>>)
                      \o (IF ~options.write THEN <<>>
                          ELSE IF ~options.check THEN <<Line("Upgraded", filePath)>>
                          ELSE <<Line("Changes written to file", "")>>)
         /\ IF options.write
              THEN /\ disk' = [disk EXCEPT ![filePath] = result.code]
                   /\ written' = Append(written, filePath)
              ELSE UNCHANGED <<disk, written>>
         /\ modifiedCount' = modifiedCount + 1
         /\ UNCHANGED stderr
    ELSE /\ stdout' = IF ~options.check THEN Append(stdout, Line("No changes", filePath))
                      ELSE stdout
         /\ UNCHANGED <<disk, written, modifiedCount, stderr>>

\* a catch clause that counts the file as modified
processFileCaughtCounts(filePath) ==
  /\ stderr' = Append(stderr, Line("Error processing", filePath))
  /\ modifiedCount' = modifiedCount + 1
  /\ UNCHANGED <<disk, written, stdout>>

\* the catch clause of processFile
processFileCaught(filePath) ==
  /\ stderr' = Append(stderr, Line("Error processing", filePath))
  /\ UNCHANGED <<disk, written, modifiedCount, stdout>>

\* processFile after transform returned or raised, and the step of the loop
\* of processFiles
processFileEnd ==
  /\ cli = "transform"
  /\ pc \in {"done", "threw"}
  /\ IF pc = "threw"
       THEN processFileCaught(files[file])
       ELSE processFileReturned(files[file],
                                [write |-> shouldWrite(argv), check |-> shouldCheck(argv)])
  /\ pc' = "idle"
  /\ file' = file + 1
  /\ cli' = IF file < Len(files) THEN "file" ELSE "summary"
  /\ UNCHANGED <<argv, files, exitCode>>
  /\ UNCHANGED <<code, lead, baseline, next, ast, modified, allChanges, ran, result>>

\* processFiles after its loop: the summary and the exit status
processFilesEnd ==
  /\ cli = "summary"
  /\ stdout' = stdout \o
       <<Line("", ""),
         IF modifiedCount > 0
           THEN [text |-> IF shouldWrite(argv) THEN "Summary: file(s) upgraded"
                          ELSE "Summary: file(s) need upgrading",
                 count |-> modifiedCount]
           ELSE Line("Summary: All files are already modern", "")>>
  /\ exitCode' = IF shouldCheck(argv) /\ modifiedCount > 0 THEN 1 ELSE 0
  /\ cli' = "exit"
  /\ UNCHANGED <<argv, disk, files, file, modifiedCount, stderr, written>>
  /\ UNCHANGED <<code, lead, baseline, pc, next, ast, modified, allChanges, ran, result>>

CliNext ==
  \/ action
  \/ processFile
  \/ Call_
  \/ RunAnonymousFunctionToArrow
  \/ RunArrayConcatToSpread
  \/ RunArrayFromForEachToForOf
  \/ RunArrayFromToSpread
  \/ RunConcatToTemplateLiteral
  \/ RunForLoopToForOf
  \/ RunForOfKeysToForIn
  \/ RunIterableForEachToForOf
  \/ RunMathPowToExponentiation
  \/ RunObjectAssignToSpread
  \/ RunVarToConst
  \/ RunPromiseTry
  \/ ReturnResult
  \/ processFileEnd
  \/ processFilesEnd

CliSpec == CliInit /\ [][CliNext]_vars

----------------------------------------------------------------------------
(* Properties of transform and of its passes                               *)

\* the loop is about to call the transformer called name
Running(name) ==
  /\ pc = "loop"
  /\ next <= Len(transformers(Tier(baseline)))
  /\ transformers(Tier(baseline))[next] = name

\* the tree transform parsed
Parsed == Parse(code, lead)

\* the result of the transformer the loop called last
Last == ran[Len(ran)]

\* the names of the transformers called so far
Called == [i \in 1..Len(ran) |-> ran[i].name]

\* the paths of the tree whose nodes satisfy Test(nodes, id)
Paths(nodes, types, Test(_, _)) ==
  SelectSeq(find(nodes, types), LAMBDA p : Test(nodes, p.node))

\* the records of one type in a list of changes
Records(changes, type) == SelectSeq(changes, LAMBDA c : c.type = type)

RECURSIVE Join(_)

\* the concatenation of a sequence of strings
Join(ss) == IF ss = <<>> THEN "" ELSE Head(ss) \o Join(Tail(ss))

\* C1: for every input and either tier, the returned result has modified
\* true if and only if changes is non-empty.
C1_ModifiedIffChanges ==
  pc = "done" => (result.modified <=> result.changes # <<>>)

RECURSIVE Reading(_, _)

\* what one reads from left to right in a `+` chain or in a template
\* literal (segment 0, substitution 0, segment 1, ...): the string values
\* and the names of the other operands
Reading(nodes, id) ==
  IF IsPlus(nodes, id)
    THEN Reading(nodes, Kid(nodes, id, 1)) \o Reading(nodes, Kid(nodes, id, 2))
  ELSE IF TypeOf(nodes, id) = "TemplateLiteral"
    THEN LET quasis == nodes[Kid(nodes, id, 1)].kids
             expressions == nodes[Kid(nodes, id, 2)].kids
         IN Join([i \in 1..Len(quasis) |->
                    nodes[quasis[i]].name
                    \o (IF i <= Len(expressions)
                          THEN Reading(nodes, expressions[i]) ELSE "")])
  ELSE NameOf(nodes, id)

\* C2: every `+` chain that concatToTemplateLiteral rewrites becomes a
\* template literal that reads, by position, as the chain read from left
\* to right, whatever the shape of the chain.
C2_TemplateKeepsReadingOrder ==
  [][Running("concatToTemplateLiteral") =>
       LET chains == concatToTemplateLiteralFind(ast)
       IN \A i \in 1..Len(chains) :
            LET p == chains[i]
                new == ast'[p.parent].kids[p.idx]
            IN /\ TypeOf(ast', new) = "TemplateLiteral"
               /\ Len(ast'[Kid(ast', new, 1)].kids)
                    = Len(ast'[Kid(ast', new, 2)].kids) + 1
               /\ Reading(ast', new) = Reading(ast, p.node)]_vars

RECURSIVE OwnReference(_, _)

\* a `this`, `arguments` or `super` at or below id that belongs to the
\* enclosing function: not inside a nested non-arrow function
OwnReference(nodes, id) ==
  IF id = 0 THEN FALSE
  ELSE IF nodes[id].type \in {"ThisExpression", "Super"} THEN TRUE
  ELSE IF nodes[id].type = "Identifier" THEN nodes[id].name = "arguments"
  ELSE IF nodes[id].type \in {"FunctionExpression", "FunctionDeclaration"} THEN FALSE
  ELSE \E i \in 1..Len(nodes[id].kids) : OwnReference(nodes, nodes[id].kids[i])

\* the function uses one of them in its parameters or in its body
UsesOwnBinding(nodes, f) ==
  \E i \in 2..Len(nodes[f].kids) : OwnReference(nodes, nodes[f].kids[i])

\* C3: anonymousFunctionToArrow never converts a function expression that
\* uses this, arguments or super as its own binding (in its body or in a
\* parameter default, outside nested non-arrow functions): the function
\* stays where it is, a function expression.
C3_OwnBindingStaysFunction ==
  [][Running("anonymousFunctionToArrow") =>
       LET fs == Paths(ast, {"FunctionExpression"}, UsesOwnBinding)
       IN \A i \in 1..Len(fs) :
            /\ ast'[fs[i].parent].kids[fs[i].idx] = fs[i].node
            /\ ast'[fs[i].node].type = "FunctionExpression"]_vars

\* a call X.forEach(...)
IsForEachCall(nodes, id) == IsMethodCall(nodes, id, "forEach")

\* the conditions the rewrite of X.forEach(cb) into for...of is stated under
ForEachOfArrayFrom(nodes, p) ==
  LET X == Kid(nodes, Kid(nodes, p.node, 1), 1)
      cb == Kid(nodes, p.node, 2)
  IN /\ IsArrayFrom(nodes, X)
     /\ Len(Arguments(nodes, X)) = 1
     /\ TypeOf(nodes, cb) \in {"ArrowFunctionExpression", "FunctionExpression"}
     /\ \/ Len(Params(nodes, cb)) = 1
        \/ /\ Len(Params(nodes, cb)) >= 2
           /\ TypeOf(nodes, Params(nodes, cb)[1]) = "ArrayPattern"
     /\ TypeOf(nodes, p.parent) = "ExpressionStatement"

\* C4: arrayFromForEachToForOf rewrites X.forEach(cb) only when X is an
\* Array.from call with exactly one argument, cb is an inline function
\* with one parameter (or a destructuring first parameter) and the call is
\* an expression statement, the loop iterating over that argument; in
\* every other case the tree is unchanged and nothing is recorded.
C4_OnlyArrayFromOfOneArgument ==
  [][Running("arrayFromForEachToForOf") =>
       LET calls == Paths(ast, {"CallExpression"}, IsForEachCall)
       IN /\ \A i \in 1..Len(calls) :
               ForEachOfArrayFrom(ast, calls[i]) =>
                 LET st == ParentPath(calls[i])
                     loop == ast'[st.parent].kids[st.idx]
                     X == Kid(ast, Kid(ast, calls[i].node, 1), 1)
                 IN /\ TypeOf(ast', loop) = "ForOfStatement"
                    /\ Kid(ast', loop, 2) = Kid(ast, X, 2)
          /\ (\A i \in 1..Len(calls) : ~ForEachOfArrayFrom(ast, calls[i])) =>
               /\ ast' = ast
               /\ pc' = "loop"
               /\ Last'.changes = <<>>]_vars

RECURSIVE Mentions(_, _, _)

\* an identifier with one of the names occurs at or below id
Mentions(nodes, id, names) ==
  IF id = 0 THEN FALSE
  ELSE \/ nodes[id].type = "Identifier" /\ nodes[id].name \in names
       \/ \E i \in 1..Len(nodes[id].kids) : Mentions(nodes, nodes[id].kids[i], names)

\* the names of the parameters of a function
ParamNames(nodes, f) ==
  {nodes[Params(nodes, f)[i]].name : i \in 1..Len(Params(nodes, f))}

\* C5: whenever promiseTry rewrites new Promise(executor) into
\* Promise.try(arg), the replacement has no reference to the executor's
\* parameters (resolve, reject), and a thunk it builds has no parameters.
C5_NoReferenceToResolveOrReject ==
  [][Running("promiseTry") =>
       LET news == find(ast, {"NewExpression"})
       IN \A i \in 1..Len(news) :
            LET p == news[i]
                new == ast'[p.parent].kids[p.idx]
                arg == Kid(ast', new, 2)
            IN new # p.node =>
                 /\ ~Mentions(ast', new, ParamNames(ast, Kid(ast, p.node, 2)))
                 /\ TypeOf(ast', arg) = "ArrowFunctionExpression" =>
                      Len(Params(ast', arg)) = 0]_vars

\* new Promise(...)
IsPromiseConstruction(nodes, id) == Named(nodes, Kid(nodes, id, 1), "Promise")

\* the tree constructs no Promise
NoPromise(nodes) == Paths(nodes, {"NewExpression"}, IsPromiseConstruction) = <<>>

\* C6: with the tier "widely-available", also the default, promiseTry
\* never runs: no new Promise(...) is rewritten and no promiseTry record is
\* returned; with "newly-available" every widely-available pass runs and
\* then promiseTry, and on an input that constructs no Promise both tiers
\* return the same code, modified and changes.
C6_TierGating ==
  /\ Tier(baseline) = "widely-available" =>
       /\ \A i \in 1..Len(ran) : ran[i].name # "promiseTry"
       /\ Records(allChanges, "promiseTry") = <<>>
       /\ pc = "done" =>
            /\ Called = widelyAvailable
            /\ \A parsed \in {Parsed} :
                 /\ LET news == Paths(parsed, {"NewExpression"}, IsPromiseConstruction)
                    IN \A i \in 1..Len(news) :
                         /\ ast[news[i].parent].kids[news[i].idx] = news[i].node
                         /\ ast[news[i].node].type = "NewExpression"
                 /\ NoPromise(parsed) =>
                      result = transform(code, lead, "newly-available")
  /\ Tier(baseline) = "newly-available" /\ pc = "done" =>
       /\ Called = widelyAvailable \o <<"promiseTry">>
       /\ \A parsed \in {Parsed} :
            NoPromise(parsed) =>
              /\ result = transform(code, lead, "widely-available")
              /\ result = transform(code, lead, "undefined")

\* passes have changed a program that constructs no Promise, and the result
\* has been returned under "newly-available"
C6_Witness ==
  /\ pc = "done"
  /\ baseline = "newly-available"
  /\ code = Program(<<ExprStmt(Method(Id("Math"), "pow", <<Id("a"), Id("b")>>)),
                      Decl("var", "v", Num("1"))>>)
  /\ result.modified
  /\ Len(result.changes) = 2

\* a declaration that uses `var`
IsVar(nodes, id) == nodes[id].name = "var"

Reassigned(nodes, n) ==
  \E id \in 1..Len(nodes) :
    /\ nodes[id].type \in {"AssignmentExpression", "UpdateExpression"}
    /\ Named(nodes, Kid(nodes, id, 1), n)

\* C8: a `var` declaration whose variable is assigned again later is
\* rewritten to let, one whose variable is never reassigned to const.
C8_ReassignedVarBecomesLet ==
  pc = "done" =>
    \A parsed \in {Parsed} :
      \A vs \in {Paths(parsed, {"VariableDeclaration"}, IsVar)} :
        \A kept \in {Subtree(ast, Root)} :
          \A i \in 1..Len(vs) :
            LET v == vs[i].node
                again == \E k \in 1..Len(parsed[v].kids) :
                           Reassigned(parsed,
                                      NameOf(parsed, Kid(parsed, parsed[v].kids[k], 1)))
            IN v \in kept => ast[v].name = IF again THEN "let" ELSE "const"

\* no selected pass has an accepted candidate in the tree
NoCandidates(nodes) ==
  \A i \in 1..Len(transformers(Tier(baseline))) :
    /\ Candidates(transformers(Tier(baseline))[i], nodes) = <<>>
    /\ ~FilterThrows(transformers(Tier(baseline))[i], nodes)

\* C9: for every input in which no selected pass has an accepted
\* candidate, the empty input included, transform returns modified false
\* and changes [], and the code is the print of the untouched tree.
C9_NoMatchNoChange ==
  pc = "done" =>
    \A parsed \in {Parsed} :
      NoCandidates(parsed) =>
        /\ result.returned
        /\ result.modified = FALSE
        /\ result.changes = <<>>
        /\ ast = parsed
        /\ result.code = code
        /\ \A i \in 1..Len(ran) : ~ran[i].modified /\ ran[i].changes = <<>>

\* transform has returned, under the tier with every pass, for a program of
\* two statements that no pass matches
C9_Witness ==
  /\ pc = "done"
  /\ baseline = "newly-available"
  /\ code = Program(<<ExprStmt(Call(Id("f"), <<Id("x")>>)),
                      ExprStmt(Assign(Id("v"), Num("3")))>>)
  /\ result.code = code
  /\ ~result.modified

\* the place of a pass in the order the tier runs the passes in
Place(type) ==
  CHOOSE i \in 1..Len(transformers(Tier(baseline))) :
    transformers(Tier(baseline))[i] = type

\* C10: the returned changes are ordered by pass execution: the records of
\* a pass that ran earlier precede those of a pass that ran later, the
\* passes run in the one order of the tier, and the records of one pass
\* are in source order.
C10_ChangesInPassOrder ==
  /\ Called = SubSeq(transformers(Tier(baseline)), 1, Len(ran))
  /\ \A i \in 1..Len(ran) : \A j, k \in 1..Len(ran[i].changes) :
       /\ ran[i].changes[j].type = ran[i].name
       /\ j < k => ran[i].changes[j].line <= ran[i].changes[k].line
  /\ pc = "done" =>
       /\ result.changes = Flat([i \in 1..Len(ran) |-> ran[i].changes])
       /\ \A j, k \in 1..Len(result.changes) :
            j < k =>
              \/ Place(result.changes[j].type) < Place(result.changes[k].type)
              \/ /\ result.changes[j].type = result.changes[k].type
                 /\ result.changes[j].line <= result.changes[k].line

\* the result lists a record of an earlier pass before a record of a later
\* pass that is for an earlier line, and two records of one pass
C10_Witness ==
  /\ pc = "done"
  /\ \E j, k \in 1..Len(result.changes) :
       /\ j < k
       /\ result.changes[j].type # result.changes[k].type
       /\ result.changes[j].line > result.changes[k].line
  /\ \E j, k \in 1..Len(result.changes) :
       /\ j < k
       /\ result.changes[j].type = result.changes[k].type
       /\ result.changes[j].line < result.changes[k].line

RECURSIVE Names(_)

\* the names of the identifiers of a text
Names(t) ==
  (IF t.type = "Identifier" THEN {t.name} ELSE {})
  \cup UNION {Names(t.kids[i]) : i \in 1..Len(t.kids)}

\* the conditions of the rewrite of a counted loop into for...of: init is
\* one declarator `index = 0`, test is `index < X.length`, update is
\* `index++` or `++index`, the body is a block that starts with one
\* declarator `name = X[index]`, and index does not occur after it
CountedLoop(t) ==
  /\ t.type = "ForStatement"
  /\ LET init == t.kids[1]
         test == t.kids[2]
         update == t.kids[3]
         body == t.kids[4]
         index == init.kids[1].kids[1].name
         X == test.kids[2].kids[1]
         first == body.kids[1]
     IN /\ init.type = "VariableDeclaration"
        /\ Len(init.kids) = 1
        /\ init.kids[1] = Declarator(Id(index), Num("0"))
        /\ test.type = "BinaryExpression"
        /\ test.kids[2].type = "MemberExpression"
        /\ X.type = "Identifier"
        /\ test = Bin("<", Id(index), Member(X, Id("length")))
        /\ update \in {Update("++", FALSE, Id(index)), Update("++", TRUE, Id(index))}
        /\ body.type = "BlockStatement"
        /\ Len(body.kids) >= 1
        /\ first.type = "VariableDeclaration"
        /\ Len(first.kids) = 1
        /\ first.kids[1].kids[1].type = "Identifier"
        /\ first.kids[1].kids[2] = Index(X, Id(index))
        /\ \A i \in 2..Len(body.kids) : index \notin Names(body.kids[i])

RECURSIVE ForOfLoops(_)

\* a text with every counted loop that meets the conditions written as
\* `for (<keyword> name of X)` over the statements that follow the
\* declaration, and everything else as it is
ForOfLoops(t) ==
  IF CountedLoop(t)
    THEN LET body == t.kids[4]
             first == body.kids[1]
         IN ForOf(VarDecl(first.name, <<Declarator(first.kids[1].kids[1], Null)>>),
                  t.kids[2].kids[2].kids[1],
                  Block([i \in 1..(Len(body.kids) - 1) |-> ForOfLoops(body.kids[i + 1])]))
    ELSE T(t.type, t.name, t.flags, [i \in 1..Len(t.kids) |-> ForOfLoops(t.kids[i])])

\* C11: forLoopToForOf rewrites a `for` statement if and only if it meets
\* the conditions of a counted loop over X (index from 0, test
\* index < X.length, index++ or ++index, first statement name = X[index],
\* no later use of index); the rewritten loop is `for (keyword name of X)`
\* over the remaining statements in their order, and every other loop is
\* left as it is.
C11_CountedLoopsBecomeForOf ==
  [][Running("forLoopToForOf") =>
       \A before \in {toSource(ast, Root)} :
         toSource(ast', Root) = ForOfLoops(before)]_vars

\* a member access written with a dot whose property is called m
Dotted(nodes, id, m) ==
  /\ TypeOf(nodes, id) = "MemberExpression"
  /\ "computed" \notin nodes[id].flags
  /\ Named(nodes, Kid(nodes, id, 2), m)

RECURSIVE RootedAtDocument(_, _)

\* a chain of member accesses and of calls of members that ends in the
\* identifier `document`
RootedAtDocument(nodes, id) ==
  IF TypeOf(nodes, id) = "Identifier" THEN nodes[id].name = "document"
  ELSE IF TypeOf(nodes, id) = "MemberExpression"
    THEN RootedAtDocument(nodes, Kid(nodes, id, 1))
  ELSE IF TypeOf(nodes, id) = "CallExpression"
    THEN /\ TypeOf(nodes, Kid(nodes, id, 1)) = "MemberExpression"
         /\ RootedAtDocument(nodes, Kid(nodes, Kid(nodes, id, 1), 1))
  ELSE FALSE

\* the receivers whose forEach may be rewritten: `window.frames`, and a call
\* of one of the four document methods on a chain that ends in `document`
IterableReceiver(nodes, R) ==
  \/ /\ Dotted(nodes, R, "frames")
     /\ Named(nodes, Kid(nodes, R, 1), "window")
  \/ /\ TypeOf(nodes, R) = "CallExpression"
     /\ \E m \in {"querySelectorAll", "getElementsByTagName",
                   "getElementsByClassName", "getElementsByName"} :
          Dotted(nodes, Kid(nodes, R, 1), m)
     /\ RootedAtDocument(nodes, Kid(nodes, Kid(nodes, R, 1), 1))

\* an inline callback with exactly one parameter and a block body
BlockCallbackOfOne(nodes, call) ==
  /\ Len(Arguments(nodes, call)) >= 1
  /\ TypeOf(nodes, Kid(nodes, call, 2)) \in
       {"ArrowFunctionExpression", "FunctionExpression"}
  /\ Len(Params(nodes, Kid(nodes, call, 2))) = 1
  /\ TypeOf(nodes, Body(nodes, Kid(nodes, call, 2))) = "BlockStatement"

\* C12: iterableForEachToForOf rewrites R.forEach(cb) only when R is
\* `window.frames` or a call of querySelectorAll / getElementsByTagName /
\* getElementsByClassName / getElementsByName on a chain that ends in
\* `document`, and cb is inline with exactly one parameter and a block body;
\* the statement of every other call stays as it is.
C12_OnlyKnownIterables ==
  [][Running("iterableForEachToForOf") =>
       \A calls \in {find(ast, {"CallExpression"})} :
         \A i \in 1..Len(calls) :
           LET call == calls[i].node
               statement == ParentPath(calls[i])
           IN \/ /\ Dotted(ast, Kid(ast, call, 1), "forEach")
                 /\ IterableReceiver(ast, Kid(ast, Kid(ast, call, 1), 1))
                 /\ BlockCallbackOfOne(ast, call)
              \/ /\ ast'[statement.parent].kids[statement.idx] = statement.node
                 /\ ast'[statement.node] = ast[statement.node]]_vars

\* the idiom of one pass is the only idiom of the tree that a selected
\* pass matches
OnlyMatches(nodes, only) ==
  \A i \in 1..Len(transformers(Tier(baseline))) :
    LET name == transformers(Tier(baseline))[i]
    IN name # only =>
         Candidates(name, nodes) = <<>> /\ ~FilterThrows(name, nodes)

\* C13: for an input whose only matching idiom is `var` declarations,
\* transform run again with the same tier on the code it returned reports
\* modified false and no changes.
C13_VarToConstIdempotent ==
  pc = "done" =>
    \A parsed \in {Parsed} :
      OnlyMatches(parsed, "varToConst") =>
        \A again \in {transform(result.code, lead, baseline)} :
          /\ again.returned
          /\ ~again.modified
          /\ again.changes = <<>>
          /\ again.code = result.code

\* a call Math.pow(base, exponent) in an arena, and in a text
IsPow(nodes, id) ==
  /\ TypeOf(nodes, id) = "CallExpression"
  /\ CalleeMatches(nodes, id, "Math", "pow")
  /\ Len(Arguments(nodes, id)) = 2

PowCall(t) ==
  /\ t.type = "CallExpression"
  /\ Len(t.kids) = 3
  /\ t.kids[1].type = "MemberExpression"
  /\ t.kids[1].kids = <<Id("Math"), Id("pow")>>

RECURSIVE PowOnce(_, _)

\* what one run makes of a text: a power call becomes base ** exponent
\* unless it is itself the base or the exponent of a power call that has
\* just been replaced (direct is TRUE for such an operand); the operands
\* of a call that is kept and everything else are rewritten in turn
PowOnce(t, direct) ==
  IF PowCall(t) /\ ~direct
    THEN Bin("**", PowOnce(t.kids[2], TRUE), PowOnce(t.kids[3], TRUE))
    ELSE T(t.type, t.name, t.flags,
           [i \in 1..Len(t.kids) |-> PowOnce(t.kids[i], FALSE)])

RECURSIVE Operands(_, _)

\* the operands of a `+` chain from left to right
Operands(nodes, id) ==
  IF IsPlus(nodes, id)
    THEN Operands(nodes, Kid(nodes, id, 1)) \o Operands(nodes, Kid(nodes, id, 2))
    ELSE <<id>>

\* the number of runs of adjacent string literals among the operands
Runs(nodes, ops) ==
  Cardinality({i \in 1..Len(ops) :
                 /\ TypeOf(nodes, ops[i]) = "StringLiteral"
                 /\ i = 1 \/ TypeOf(nodes, ops[i - 1]) # "StringLiteral"})

\* a `+` expression that is not an operand of another `+`: a whole chain
TopOfChain(nodes, p) == IsPlus(nodes, p.node) /\ ~IsPlus(nodes, p.parent)

\* C15: concatToTemplateLiteral rewrites a `+` chain if and only if one of
\* its operands is a string literal (otherwise the chain stays and the
\* pass reports modified false when no chain has one); the template
\* literal has one more segment than substitutions, only its last segment
\* is the tail, and adjacent string literals are merged into one segment.
C15_TemplateOfEveryChainWithALiteral ==
  [][Running("concatToTemplateLiteral") =>
       \A tops \in {SelectSeq(find(ast, {"BinaryExpression"}),
                              LAMBDA p : TopOfChain(ast, p))} :
         /\ ran'[Len(ran')].modified <=>
              \E i \in 1..Len(tops) : containsStringLiteral(ast, tops[i].node)
         /\ \A i \in 1..Len(tops) :
              LET p == tops[i]
                  ops == Operands(ast, p.node)
                  new == ast'[p.parent].kids[p.idx]
                  quasis == ast'[Kid(ast', new, 1)].kids
                  expressions == ast'[Kid(ast', new, 2)].kids
              IN IF \E k \in 1..Len(ops) : TypeOf(ast, ops[k]) = "StringLiteral"
                   THEN /\ TypeOf(ast', new) = "TemplateLiteral"
                        /\ Len(quasis) = Len(expressions) + 1
                        /\ \A k \in 1..Len(quasis) :
                             "tail" \in ast'[quasis[k]].flags <=> k = Len(quasis)
                        /\ Cardinality({k \in 1..Len(quasis) :
                                          ast'[quasis[k]].name # ""})
                             = Runs(ast, ops)
                   ELSE /\ new = p.node
                        /\ ast'[p.node] = ast[p.node]]_vars


\* the conditions under which a `new Promise(...)` is stated to be skipped
PromiseSkipped(nodes, p) ==
  LET node == p.node
      args == Arguments(nodes, node)
      executor == Kid(nodes, node, 2)
      inline == TypeOf(nodes, executor) \in {"ArrowFunctionExpression", "FunctionExpression"}
      params == IF inline THEN Params(nodes, executor) ELSE <<>>
      body == IF inline THEN Body(nodes, executor) ELSE 0
      block == TypeOf(nodes, body) = "BlockStatement"
      stmt == Kid(nodes, body, 1)
      call == IF block THEN Kid(nodes, stmt, 1) ELSE body
      isCall == TypeOf(nodes, call) = "CallExpression"
      resolve == IF Len(params) >= 1 /\ TypeOf(nodes, params[1]) = "Identifier"
                   THEN NameOf(nodes, params[1]) ELSE ""
      toResolve == isCall /\ resolve # "" /\ Named(nodes, Kid(nodes, call, 1), resolve)
      passesResolve == /\ isCall /\ resolve # ""
                       /\ Len(Arguments(nodes, call)) = 1
                       /\ Named(nodes, Kid(nodes, call, 2), resolve)
  IN \/ Len(args) # 1
     \/ ~inline
     \/ Len(params) = 0 \/ Len(params) > 2
     \/ TypeOf(nodes, p.parent) = "AwaitExpression"
     \/ block /\ Len(nodes[body].kids) > 1
     \/ block /\ Len(nodes[body].kids) = 1 /\ TypeOf(nodes, stmt) # "ExpressionStatement"
     \/ isCall /\ resolve # "" /\ ~toResolve /\ ~passesResolve
     \/ toResolve /\ Len(Arguments(nodes, call)) # 1

\* C16: promiseTry leaves a `new Promise(...)` unchanged and records nothing
\* when the constructor has other than one argument, the argument is not an
\* inline function, the executor has 0 or more than 2 parameters, the
\* expression is awaited, the body is a block of several statements or of a
\* statement that is not an expression statement, the call of the body is
\* neither resolve(...) nor a call with resolve as sole argument, or resolve
\* is called with other than one argument.
C16_PromiseTrySkips ==
  [][Running("promiseTry") =>
       \A found \in {Paths(ast, {"NewExpression"},
                           LAMBDA nodes, n : Named(nodes, Kid(nodes, n, 1), "Promise"))} :
         /\ \A i \in 1..Len(found) :
              PromiseSkipped(ast, found[i]) =>
                /\ ast'[found[i].parent].kids[found[i].idx] = found[i].node
                /\ ast'[found[i].node] = ast[found[i].node]
         /\ (\A i \in 1..Len(found) : PromiseSkipped(ast, found[i])) =>
              allChanges' = allChanges]_vars


\* C17: transform does not catch a parse error: for malformed source the
\* call raises and returns no result.  The command handles it file by file:
\* the file is reported on stderr, is not written and not counted as
\* modified, the loop goes on to the remaining files, and the exit status is
\* non-zero only if some file was reported modified.
C17_ParseErrorIsPerFile ==
  /\ [](SyntaxError(code) /\ pc \notin {"idle", "call"} =>
          pc = "threw" /\ ~result.returned)
  /\ [][cli = "transform" /\ SyntaxError(code) /\ pc # "call" =>
          /\ stderr' = Append(stderr, Line("Error processing", files[file]))
          /\ disk' = disk
          /\ written' = written
          /\ modifiedCount' = modifiedCount
          /\ exitCode' = -1
          /\ file' = file + 1
          /\ file < Len(files) => cli' = "file"]_vars
  /\ [](cli = "summary" => file = Len(files) + 1)
  /\ [](cli = "exit" /\ files # <<>> /\ modifiedCount = 0 => exitCode = 0)

\* a malformed file was reported, the file after it was upgraded, exit status 0
C17_Witness ==
  /\ cli = "exit"
  /\ argv.files = <<"broken.js", "old.js">>
  /\ stderr = <<Line("Error processing", "broken.js")>>
  /\ written = <<"old.js">>
  /\ disk["broken.js"] = Broken
  /\ modifiedCount = 1
  /\ exitCode = 0


\* writing is enabled iff --write is given or --check is not given
WritingEnabled == argv.write \/ ~argv.check

\* C18: a file is overwritten iff transform reported modified for it and
\* writing is enabled, writing being enabled iff --write is given or --check
\* is not given, so that --check alone never changes a file; after all files
\* are processed the exit status is 1 iff --check was given and at least one
\* file was reported modified, and 0 otherwise.
C18_WriteGatingAndExitStatus ==
  /\ [][IF cli = "transform" /\ pc = "done" /\ result.modified /\ WritingEnabled
          THEN /\ written' = Append(written, files[file])
               /\ disk' = [disk EXCEPT ![files[file]] = result.code]
          ELSE /\ written' = written
               /\ disk' = disk]_vars
  /\ [](argv.check /\ ~argv.write => disk = Disk /\ written = <<>>)
  /\ [](cli = "exit" /\ files # <<>> =>
          /\ exitCode \in {0, 1}
          /\ exitCode = 1 <=> argv.check /\ modifiedCount > 0
          /\ exitCode = 1 <=>
               \E i \in 1..Len(stdout) : stdout[i].text = "needs upgrading")

\* with --check and --write a file that needed upgrading was overwritten and
\* the exit status is 1
C18_Witness ==
  /\ cli = "exit"
  /\ argv.check /\ argv.write
  /\ argv.files = <<"modern.js", "old.js">>
  /\ written = <<"old.js">>
  /\ disk["old.js"] = Modern
  /\ exitCode = 1


\* a receiver that is statically verifiable as an array: an array literal,
\* a call of a method on `Array`, `new Array(...)`, or a listed string
\* method called on a string literal
VerifiableArray(t) ==
  \/ t.type = "ArrayExpression"
  \/ /\ t.type = "CallExpression"
     /\ t.kids[1].type = "MemberExpression"
     /\ t.kids[1].kids[1] = Id("Array")
  \/ /\ t.type = "NewExpression"
     /\ t.kids[1] = Id("Array")
  \/ /\ t.type = "CallExpression"
     /\ \E m \in STRING_METHODS_RETURNING_ARRAY :
          /\ t.kids[1].type = "MemberExpression"
          /\ t.kids[1].kids[1].type = "StringLiteral"
          /\ t.kids[1] = Member(t.kids[1].kids[1], Id(m))

\* R.concat(a1, ..., an) with n >= 1 and R verifiable
ConcatOnArray(t) ==
  /\ t.type = "CallExpression"
  /\ Len(t.kids) >= 2
  /\ t.kids[1].type = "MemberExpression"
  /\ t.kids[1] = Member(t.kids[1].kids[1], Id("concat"))
  /\ VerifiableArray(t.kids[1].kids[1])

RECURSIVE ConcatAsSpread(_)

\* a text with every R.concat(a1, ..., an) that meets the conditions
\* written as [...R, ...a1, ..., ...an], and everything else as it is
ConcatAsSpread(t) ==
  IF ConcatOnArray(t)
    THEN Arr(<<Spread(ConcatAsSpread(t.kids[1].kids[1]))>>
             \o [i \in 1..(Len(t.kids) - 1) |-> Spread(ConcatAsSpread(t.kids[i + 1]))])
    ELSE T(t.type, t.name, t.flags, [i \in 1..Len(t.kids) |-> ConcatAsSpread(t.kids[i])])

\* C19: arrayConcatToSpread rewrites R.concat(a1, ..., an) if and only if
\* n >= 1 and R is statically verifiable as an array; the result is an array
\* literal of a spread of R followed by a spread of each argument in
\* argument order; a concat call on another receiver or with no argument is
\* left as it is.
C19_ConcatOnArraysBecomesSpread ==
  [][Running("arrayConcatToSpread") =>
       \A before \in {toSource(ast, Root)} :
         toSource(ast', Root) = ConcatAsSpread(before)]_vars


\* C20: transform keeps no state between invocations: whatever calls came
\* before it, a call returns (or raises) what the same call of
\* transform(source, tier) returns in isolation.
C20_NoStateBetweenCalls ==
  cli = "transform" /\ pc \in {"done", "threw"} =>
    /\ result = transform(code, lead, baseline)
    /\ pc = "threw" <=> ~result.returned

\* a second call that reports a change, after a first call that reported one
C20_Witness ==
  /\ cli = "transform"
  /\ pc = "done"
  /\ file = 2
  /\ modifiedCount = 1
  /\ files = <<"old.js", "dir/view.jsx">>
  /\ result.modified
  /\ Len(result.changes) = 1


RECURSIVE ReferenceUnderArrow(_, _, _)

\* a `this`, `arguments` or `super` below id that is reached through a
\* nested arrow function and through no nested non-arrow function
ReferenceUnderArrow(nodes, id, under) ==
  IF id = 0 THEN FALSE
  ELSE IF nodes[id].type \in {"ThisExpression", "Super"} THEN under
  ELSE IF nodes[id].type = "Identifier" /\ nodes[id].name = "arguments" THEN under
  ELSE IF nodes[id].type \in {"FunctionExpression", "FunctionDeclaration"} THEN FALSE
  ELSE \E i \in 1..Len(nodes[id].kids) :
         ReferenceUnderArrow(nodes, nodes[id].kids[i],
                             under \/ nodes[id].type = "ArrowFunctionExpression")

\* C21: the checks for this, arguments and super all descend into nested
\* arrow functions and stop at nested non-arrow functions, so a function
\* expression whose body refers to one of them inside a nested arrow
\* function is not converted.
C21_ReferenceUnderArrowStaysFunction ==
  [][Running("anonymousFunctionToArrow") =>
       \A found \in {find(ast, {"FunctionExpression"})} :
         \A i \in 1..Len(found) :
           ReferenceUnderArrow(ast, Body(ast, found[i].node), FALSE) =>
             /\ ast'[found[i].parent].kids[found[i].idx] = found[i].node
             /\ ast'[found[i].node] = ast[found[i].node]]_vars


\* what the forEach callback of a pass does with candidate p on a tree
Decision(name, nodes, p) ==
  CHOOSE d \in
    {IF e.threw THEN "raise" ELSE IF e.modified THEN "rewrite" ELSE "skip" :
       e \in {Each(name, PassResult(nodes, FALSE, <<>>, FALSE), p)}} : TRUE

RECURSIVE InOrder(_, _, _, _, _)

\* the callbacks on the candidates paths[i..] of the tree `start`, in order:
\* [same, out], same telling that every decision taken on the way is the
\* one the tree `start` gives, out being the result of the pass
InOrder(name, paths, i, acc, start) ==
  IF i > Len(paths) \/ acc.threw THEN [same |-> TRUE, out |-> acc]
  ELSE CHOOSE r \in
         {[same |-> /\ Decision(name, acc.nodes, paths[i]) = Decision(name, start, paths[i])
                    /\ rest.same,
           out |-> rest.out] :
            rest \in {InOrder(name, paths, i + 1, step, start) :
                        step \in {LET e == Each(name, acc, paths[i])
                                  IN [e EXCEPT !.modified = acc.modified \/ e.modified]}}} : TRUE

\* C22: a pass enumerates and filters all its candidates on the tree as it
\* is when the pass starts, before its first rewrite, and no rewrite of the
\* pass changes the decision taken for another candidate of the pass.
C22_DecisionsOnTheTreeAtPassStart ==
  [][\A name \in {"anonymousFunctionToArrow", "arrayConcatToSpread",
                  "arrayFromForEachToForOf", "arrayFromToSpread",
                  "concatToTemplateLiteral", "forLoopToForOf", "forOfKeysToForIn",
                  "iterableForEachToForOf", "mathPowToExponentiation",
                  "objectAssignToSpread", "varToConst", "promiseTry"} :
       Running(name) /\ ~FilterThrows(name, ast) =>
         \A r \in {InOrder(name, Candidates(name, ast), 1,
                           PassResult(ast, FALSE, <<>>, FALSE), ast)} :
           /\ r.same
           /\ ast' = r.out.nodes
           /\ ran'[Len(ran')] = [name |-> name, modified |-> r.out.modified,
                                 changes |-> r.out.changes, threw |-> r.out.threw]]_vars

\* a pass took two decisions, the second for a candidate inside the first
C22_Witness ==
  /\ code = Program(<<ExprStmt(Pow(Pow(Id("a"), Id("b")), Id("c")))>>)
  /\ pc = "loop"
  /\ ran # <<>>
  /\ ran[Len(ran)].name = "mathPowToExponentiation"
  /\ Len(ran[Len(ran)].changes) = 2


\* C23: the line of every change record is the 1-based line on which the
\* node that the pass matched starts in the input text, whatever the passes
\* before it rewrote.
C23_LinesOfTheInputText ==
  [][\A name \in {transformers(Tier(baseline))[i] :
                    i \in 1..Len(transformers(Tier(baseline)))} :
       Running(name) =>
         \A original \in {Parsed}, matched \in {Candidates(name, ast)} :
           \A k \in 1..Len(ran'[Len(ran')].changes) :
             \E i \in 1..Len(matched) :
               /\ matched[i].node <= Len(original)
               /\ original[matched[i].node].type = ast[matched[i].node].type
               /\ original[matched[i].node].line >= 1
               /\ ran'[Len(ran')].changes[k] =
                    Change(name, original[matched[i].node].line)]_vars

\* a change on line 3 of the text, returned after an earlier pass rewrote
\* line 2
C23_Witness ==
  /\ pc = "done"
  /\ lead = 1
  /\ code = Program(<<ExprStmt(Method(Id("Math"), "pow", <<Id("a"), Id("b")>>)),
                      Decl("var", "v", Num("1"))>>)
  /\ result.changes = <<Change("mathPowToExponentiation", 2), Change("varToConst", 3)>>


\* executor shape 2: an inline function of one or two parameters, the first
\* an identifier, whose body is a call f(resolve), or a block of the one
\* statement f(resolve);, f being another function than resolve
PassesResolveAlone(nodes, node) ==
  LET executor == Kid(nodes, node, 2)
      inline == TypeOf(nodes, executor) \in {"ArrowFunctionExpression", "FunctionExpression"}
      params == IF inline THEN Params(nodes, executor) ELSE <<>>
      body == IF inline THEN Body(nodes, executor) ELSE 0
      call == IF TypeOf(nodes, body) = "BlockStatement"
                THEN IF /\ Len(nodes[body].kids) = 1
                        /\ TypeOf(nodes, Kid(nodes, body, 1)) = "ExpressionStatement"
                       THEN Kid(nodes, Kid(nodes, body, 1), 1)
                       ELSE 0
                ELSE body
  IN /\ Named(nodes, Kid(nodes, node, 1), "Promise")
     /\ Len(Arguments(nodes, node)) = 1
     /\ inline
     /\ Len(params) \in {1, 2}
     /\ TypeOf(nodes, params[1]) = "Identifier"
     /\ TypeOf(nodes, call) = "CallExpression"
     /\ Len(Arguments(nodes, call)) = 1
     /\ Named(nodes, Kid(nodes, call, 2), NameOf(nodes, params[1]))
     /\ ~Named(nodes, Kid(nodes, call, 1), NameOf(nodes, params[1]))

\* the function f of executor shape 2
PassedTo(nodes, node) ==
  LET body == Body(nodes, Kid(nodes, node, 2))
  IN IF TypeOf(nodes, body) = "BlockStatement"
       THEN Kid(nodes, Kid(nodes, Kid(nodes, body, 1), 1), 1)
       ELSE Kid(nodes, body, 1)

\* C24: promiseTry rewrites executor shape 2 with an expression body,
\* new Promise((resolve) => f(resolve)), and with a single-statement block
\* body, new Promise((resolve) => { f(resolve); }), to Promise.try(f), f
\* being passed as it is, without a thunk.
C24_ResolvePassedAloneInEitherBody ==
  [][Running("promiseTry") =>
       \A found \in {find(ast, {"NewExpression"})} :
         \A i \in 1..Len(found) :
           /\ PassesResolveAlone(ast, found[i].node)
           /\ TypeOf(ast, found[i].parent) # "AwaitExpression"
           => toSource(ast', ast'[found[i].parent].kids[found[i].idx])
                = Call(Member(Id("Promise"), Id("try")),
                       <<toSource(ast, PassedTo(ast, found[i].node))>>)]_vars


RECURSIVE PlusOfChain(_, _)

\* the `+` nodes of the chain below (and including) id
PlusOfChain(nodes, id) ==
  IF IsPlus(nodes, id)
    THEN {id} \cup PlusOfChain(nodes, Kid(nodes, id, 1))
              \cup PlusOfChain(nodes, Kid(nodes, id, 2))
    ELSE {}

\* no string literal of the chain `top` is read before the subtree S
NoLiteralBefore(nodes, top, S) ==
  \A ops \in {Operands(nodes, top)} :
    \A j \in 1..Len(ops) :
      ops[j] = Operands(nodes, S)[1] =>
        \A i \in 1..(j - 1) : ~isStringLiteral(nodes, ops[i])

\* C25: in the template literal of a chain, a `+` subtree without a string
\* literal is one substitution holding the whole subtree when no string
\* literal of the chain is read before it, or when it is the right operand
\* of a `+` whose left side has a string literal; an operand that is no `+`
\* and follows a string literal that way is a substitution of its own.
C25_NumericSubtreesStayWhole ==
  [][Running("concatToTemplateLiteral") =>
       \A tops \in {SelectSeq(find(ast, {"BinaryExpression"}),
                              LAMBDA p : TopOfChain(ast, p)
                                         /\ containsStringLiteral(ast, p.node))} :
         \A i \in 1..Len(tops) :
           LET top == tops[i].node
               new == ast'[tops[i].parent].kids[tops[i].idx]
               expressions == ast'[Kid(ast', new, 2)].kids
               Hole(id) == \E k \in 1..Len(expressions) : expressions[k] = id
               Whole(S) == /\ Hole(S)
                           /\ ast'[S] = ast[S]
                           /\ \A inner \in PlusOfChain(ast, S) :
                                /\ inner # S => ~Hole(inner)
                                /\ ~Hole(Kid(ast, inner, 1))
                                /\ ~Hole(Kid(ast, inner, 2))
           IN \A P \in PlusOfChain(ast, top) :
                LET left == Kid(ast, P, 1)
                    right == Kid(ast, P, 2)
                IN /\ \A S \in {left, right} :
                        /\ IsPlus(ast, S)
                        /\ ~containsStringLiteral(ast, S)
                        /\ containsStringLiteral(ast, P)
                        /\ NoLiteralBefore(ast, top, S)
                        => Whole(S)
                   /\ IsPlus(ast, right)
                        /\ ~containsStringLiteral(ast, right)
                        /\ containsStringLiteral(ast, left)
                        => Whole(right)
                   /\ ~IsPlus(ast, right)
                        /\ ~isStringLiteral(ast, right)
                        /\ containsStringLiteral(ast, left)
                        => Hole(right)]_vars

\* a + b + c + 'd' became the template literal of the one substitution
\* a + b + c
C25_Witness ==
  /\ code = Program(<<ExprStmt(Bin("+", Bin("+", Bin("+", Id("u"), Id("v")), Id("w")),
                                   Str("d")))>>)
  /\ pc = "done"
  /\ result.modified
  /\ \E new \in {ast[ast[Root].kids[1]].kids[1]} :
       /\ TypeOf(ast, new) = "TemplateLiteral"
       /\ Len(ast[Kid(ast, new, 2)].kids) = 1
       /\ toSource(ast, ast[Kid(ast, new, 2)].kids[1])
            = Bin("+", Bin("+", Id("u"), Id("v")), Id("w"))


\* C26: every rewrite of a pass is recorded: the pass returns exactly one
\* change record of its own kind for each accepted candidate it replaces,
\* also when the matched node was built by an earlier pass of the run.
C26_OneRecordForEachRewrite ==
  [][\A name \in {transformers(Tier(baseline))[i] :
                    i \in 1..Len(transformers(Tier(baseline)))} :
       Running(name) /\ pc' = "loop" =>
         \A matched \in {Candidates(name, ast)} :
           /\ Len(ran'[Len(ran')].changes)
                = Cardinality({i \in 1..Len(matched) :
                                 Decision(name, ast, matched[i]) = "rewrite"})
           /\ \A k \in 1..Len(ran'[Len(ran')].changes) :
                ran'[Len(ran')].changes[k].type = name]_vars


\* C27: transform returns normally for every syntactically valid input: no
\* filter raises on a candidate it should skip and no pass accepts a shape
\* that its rewrite cannot build.
C27_ReturnsForEveryValidInput ==
  pc = "threw" => SyntaxError(code)


\* the rewrites of a pass that are present in the tree `after` it: the
\* places of the tree that hold a node the pass built, and the declarations
\* of the tree whose `var` the pass turned into `const`
Produced(before, after) ==
  LET live == Subtree(after, Root)
  IN {<<id, k>> \in UNION {{id} \X (1..Len(after[id].kids)) :
                             id \in {n \in live : n <= Len(before)}} :
        after[id].kids[k] > Len(before)}
     \cup {<<id, 0>> : id \in {n \in live :
                                 /\ n <= Len(before)
                                 /\ before[n].type = "VariableDeclaration"
                                 /\ before[n].name = "var"
                                 /\ after[n].name = "const"}}

\* C28: every change record corresponds to a rewrite that is present in the
\* code: a pass returns no more change records than the number of nodes it
\* produced in the tree it leaves, so none for a replacement made in a
\* subtree that an earlier rewrite of the same pass detached.
C28_RecordsOfRewritesInTheCode ==
  [][\A name \in {transformers(Tier(baseline))[i] :
                    i \in 1..Len(transformers(Tier(baseline)))} :
       Running(name) /\ pc' = "loop" =>
         Len(ran'[Len(ran')].changes) <= Cardinality(Produced(ast, ast'))]_vars


\* C29: a tier other than the exact string "newly-available", an unknown or
\* differently cased one included, makes transform behave as
\* "widely-available": promiseTry is never called, the widely-available
\* passes are called in their order, and the call returns what it returns
\* under "widely-available", raising only where that call raises.
C29_OtherTiersAreWidelyAvailable ==
  baseline # "newly-available" =>
    /\ \A i \in 1..Len(ran) : ran[i].name # "promiseTry"
    /\ Called = SubSeq(widelyAvailable, 1, Len(ran))
    /\ pc = "done" => /\ Called = widelyAvailable
                      /\ result = transform(code, lead, "widely-available")
    /\ pc = "threw" => ~transform(code, lead, "widely-available").returned

\* a call with a differently cased tier has returned: the executor became
\* an arrow function and the construction of the Promise is in place, where
\* the tier "newly-available" returns other code
C29_Witness ==
  /\ pc = "done"
  /\ baseline = "Newly-Available"
  /\ code = Program(<<Decl("const", "p",
                           NewT(Id("Promise"),
                                <<Func({}, Null, ResolveReject,
                                       Block(<<ExprStmt(Call(Id("resolve"),
                                                 <<Call(Id("getData"), <<>>)>>))>>))>>))>>)
  /\ result.modified
  /\ ~NoPromise(ast)
  /\ result.code # transform(code, lead, "newly-available").code


\* a call `Array.from(...)`, written with a dot
IsArrayDotFrom(nodes, id) ==
  /\ IsArrayFrom(nodes, id)
  /\ "computed" \notin nodes[Kid(nodes, id, 1)].flags

\* the node at p is the object of a member access `.forEach`
ReceiverOfForEach(nodes, p) ==
  /\ TypeOf(nodes, p.parent) = "MemberExpression"
  /\ "computed" \notin nodes[p.parent].flags
  /\ p.idx = 1
  /\ Named(nodes, Kid(nodes, p.parent, 2), "forEach")

\* C30: arrayFromToSpread leaves in place every Array.from call that is the
\* direct receiver of `.forEach` and every Array.from call with two or more
\* arguments, and rewrites every other Array.from call with exactly one
\* argument to an array literal with one spread element, so that the call
\* is no longer in the tree; `Array.from(items).forEach(callback)` is
\* returned unchanged with modified false.
C30_ArrayFromBecomesSpread ==
  [][/\ Running("arrayFromToSpread") =>
          \A calls \in {find(ast, {"CallExpression"})} :
            \A i \in 1..Len(calls) :
              \A p \in {calls[i]} :
                IsArrayDotFrom(ast, p.node) =>
                  \A n \in {Len(Arguments(ast, p.node))} :
                    /\ ReceiverOfForEach(ast, p) \/ n >= 2 =>
                         ast'[p.parent].kids[p.idx] = p.node
                    /\ ~ReceiverOfForEach(ast, p) /\ n = 1 =>
                         /\ pc' = "loop"
                         /\ p.node \notin Subtree(ast', Root)
                         /\ \A new \in {ast'[p.parent].kids[p.idx]} :
                              /\ TypeOf(ast', new) = "ArrayExpression"
                              /\ Len(ast'[new].kids) = 1
                              /\ TypeOf(ast', Kid(ast', new, 1)) = "SpreadElement"
                              /\ Kid(ast', Kid(ast', new, 1), 1) = Kid(ast, p.node, 2)
     /\ pc' = "done"
          /\ code = Program(<<ExprStmt(Method(Method(Id("Array"), "from",
                                                      <<Id("items")>>),
                                               "forEach", <<Id("callback")>>))>>)
        => /\ ~result'.modified
           /\ result'.code = code]_vars

====
